---- MODULE Spec2Model ----
(***************************************************************************)
(* A model of the security-and-proxy layer of api-weaver: the path         *)
(* sanitizer and the file store built on it, the command validator and     *)
(* runner, and the rate limiter / API-key gate in front of each server.    *)
(*                                                                         *)
(* Strings of the program are sequences of one-character strings, so that  *)
(* the character-level operations of the code (startsWith, regular         *)
(* expressions, path.normalize) are computed and not assumed.              *)
(***************************************************************************)
EXTENDS Integers, Sequences, FiniteSets, TLC

VARIABLES
    storage,    \* the log store: its records, newest first, and its counts of requests
    walk,       \* the project structure last asked for and what was returned
    relay,      \* the request last relayed to a downstream service, and that service's counters
    inflight,   \* the JSON-RPC message being processed, and the session attached to it
    disk,       \* the directories and files under the project root
    fileOp,     \* the FileStore operation last requested, its result, and the one before
    proxy,      \* the request last handed to ProxyRouter and how it was answered
    exec,       \* the command execution in progress: its timeout, its child, its result
    mcpService, \* which MCP service the process runs: the main one or the integration one
    sessions,   \* the SSE sessions: connection state, keep-alive timer, frames written
    rpc,        \* the JSON-RPC message last posted and what became of it
    config,     \* the notification service's configuration
    notificationHistory, \* its history of events, newest first
    server,     \* which of the four server processes this is
    apiKeyEnv,  \* process.env.API_KEY of that process ("" when unset)
    hits,       \* the limiter's hit counter of each client IP in its window
    resp,       \* the request last received and how the pipeline answered it
    input,      \* the path string a client is about to hand to a file operation
    typed,      \* number of tokens the client has appended to input
    call,       \* the last PathSanitizer / FileStore call and what it did
    cmdline,    \* the command line a client is about to send
    cmdTyped,   \* number of tokens the client has appended to cmdline
    run         \* the last CommandValidator / CommandRunner call and what it did

pathVars == <<input, typed, call>>

cmdVars == <<cmdline, cmdTyped, run>>

gateVars == <<server, apiKeyEnv, hits, resp>>

notifyVars == <<config, notificationHistory>>

\* what the file operations, the command calls and the pipeline leave alone
mcpVars == <<mcpService, sessions, rpc>>

runVars == <<exec>>

\* the state of the parts that follow the pipeline
proxyVars == <<proxy>>

diskVars == <<disk, fileOp>>

sseVars == <<inflight>>

relayVars == <<relay>>

treeVars == <<walk>>

logVars == <<storage>>

tailVars == <<relayVars, treeVars, logVars>>

restVars == <<runVars, proxyVars, diskVars, sseVars, tailVars>>

notPathVars == <<cmdVars, gateVars, notifyVars, mcpVars, restVars>>

notCmdVars == <<pathVars, gateVars, notifyVars, mcpVars, restVars>>

notGateVars == <<pathVars, cmdVars, mcpVars, restVars>>

notRunVars ==
    <<pathVars, cmdVars, gateVars, notifyVars, mcpVars, proxyVars, diskVars, sseVars,
      tailVars>>

notProxyVars == <<pathVars, cmdVars, mcpVars, runVars, diskVars, sseVars, tailVars>>

notDiskVars ==
    <<pathVars, cmdVars, gateVars, notifyVars, mcpVars, runVars, proxyVars, sseVars,
      tailVars>>

notSseVars ==
    <<pathVars, cmdVars, gateVars, notifyVars, runVars, proxyVars, diskVars, tailVars>>

notRelayVars ==
    <<pathVars, cmdVars, mcpVars, runVars, proxyVars, diskVars, sseVars, treeVars, logVars>>

notLogVars ==
    <<pathVars, cmdVars, mcpVars, runVars, proxyVars, diskVars, sseVars, relayVars, treeVars>>

notTreeVars ==
    <<pathVars, cmdVars, gateVars, notifyVars, mcpVars, runVars, proxyVars, diskVars,
      sseVars, relayVars, logVars>>

vars == <<pathVars, cmdVars, gateVars, notifyVars, mcpVars, restVars>>

(***************************************************************************)
(* String helpers (JavaScript String.prototype)                            *)
(***************************************************************************)
NUL == "NUL"

StartsWith(s, p) == Len(s) >= Len(p) /\ SubSeq(s, 1, Len(p)) = p

EndsWith(s, p) == Len(s) >= Len(p) /\ SubSeq(s, Len(s) - Len(p) + 1, Len(s)) = p

Drop(s, n) == SubSeq(s, n + 1, Len(s))

Includes(s, p) == \E i \in 1..(Len(s) - Len(p) + 1) : SubSeq(s, i, i + Len(p) - 1) = p

(***************************************************************************)
(* Node's posix path module                                                *)
(***************************************************************************)
SepPositions(s) == {0} \cup {i \in 1..Len(s) : s[i] = "/"} \cup {Len(s) + 1}

NthSep(s, k) ==
    CHOOSE b \in SepPositions(s) : Cardinality({x \in SepPositions(s) : x < b}) = k - 1

\* the segments of s between its separators, empty segments included
Segments(s) ==
    [k \in 1..(Cardinality(SepPositions(s)) - 1) |->
        SubSeq(s, NthSep(s, k) + 1, NthSep(s, k + 1) - 1)]

RECURSIVE JoinSegments(_)
JoinSegments(segs) ==
    IF segs = <<>> THEN <<>>
    ELSE IF Len(segs) = 1 THEN segs[1]
    ELSE segs[1] \o <<"/">> \o JoinSegments(Tail(segs))

DotDot == <<".", ".">>

\* normalizeString: drops empty and "." segments, resolves ".." against the
\* segment before it, keeps a ".." that has nothing to resolve against only
\* when the path is relative (allowAboveRoot)
RECURSIVE normalizeString(_, _, _)
normalizeString(segs, res, allowAboveRoot) ==
    IF segs = <<>> THEN res
    ELSE LET seg == Head(segs)
             rest == Tail(segs)
         IN IF seg = <<>> \/ seg = <<".">>
            THEN normalizeString(rest, res, allowAboveRoot)
            ELSE IF seg = DotDot
            THEN IF res # <<>> /\ res[Len(res)] # DotDot
                 THEN normalizeString(rest, SubSeq(res, 1, Len(res) - 1), allowAboveRoot)
                 ELSE IF allowAboveRoot
                 THEN normalizeString(rest, Append(res, seg), allowAboveRoot)
                 ELSE normalizeString(rest, res, allowAboveRoot)
            ELSE normalizeString(rest, Append(res, seg), allowAboveRoot)

\* path.normalize
normalize(p) ==
    IF p = <<>> THEN <<".">>
    ELSE LET isAbsolute == p[1] = "/"
             trailingSeparator == p[Len(p)] = "/"
             body == JoinSegments(normalizeString(Segments(p), <<>>, ~isAbsolute))
         IN IF body = <<>>
            THEN (IF isAbsolute THEN <<"/">>
                  ELSE IF trailingSeparator THEN <<".", "/">> ELSE <<".">>)
            ELSE (IF isAbsolute THEN <<"/">> ELSE <<>>) \o body
                 \o (IF trailingSeparator THEN <<"/">> ELSE <<>>)

\* path.join(a, b): the non-empty arguments joined by "/" and normalized
join(a, b) ==
    LET joined == IF a = <<>> THEN b
                  ELSE IF b = <<>> THEN a
                  ELSE a \o <<"/">> \o b
    IN normalize(joined)

\* path.resolve(base, p) for an absolute base: an absolute p replaces base;
\* the result is normalized and carries no trailing separator
resolve(base, p) ==
    LET full == IF p # <<>> /\ p[1] = "/" THEN p
                ELSE IF p = <<>> THEN base
                ELSE base \o <<"/">> \o p
    IN <<"/">> \o JoinSegments(normalizeString(Segments(full), <<>>, FALSE))

\* path.dirname for a normalized absolute path
dirname(p) ==
    LET q == IF Len(p) > 1 /\ p[Len(p)] = "/" THEN SubSeq(p, 1, Len(p) - 1) ELSE p
        slashes == {i \in 1..Len(q) : q[i] = "/"}
        last == CHOOSE i \in slashes : \A j \in slashes : j <= i
    IN IF last = 1 THEN <<"/">> ELSE SubSeq(q, 1, last - 1)

(***************************************************************************)
(* PathSanitizer (server/middleware/security.ts)                           *)
(***************************************************************************)
\* process.cwd() of the server process: an absolute directory two levels deep
PROJECT_ROOT == <<"/", "s", "r", "v", "/", "a", "p", "p">>

MAX_PATH_LENGTH == 500

\* inputPath.replace(/\0/g, "")
StripNul(s) == SelectSeq(s, LAMBDA c : c # NUL)

\* sanitized.replace(/^\/+/, "")
StripLeadingSlashes(s) ==
    IF \A i \in 1..Len(s) : s[i] = "/" THEN <<>>
    ELSE Drop(s, (CHOOSE i \in 1..Len(s) :
                     s[i] # "/" /\ \A j \in 1..(i - 1) : s[j] = "/") - 1)

\* one round of the loop body:
\*   sanitized.replace(/^\.\.\//, "").replace(/^\.\./, "")
\* the second replace runs on the result of the first
StripDotDotOnce(s) ==
    LET first == IF StartsWith(s, <<".", ".", "/">>) THEN Drop(s, 3) ELSE s
    IN IF StartsWith(first, DotDot) THEN Drop(first, 2) ELSE first

\* while (sanitized.startsWith("../") || sanitized === "..") { ... }
RECURSIVE StripDotDotLoop(_)
StripDotDotLoop(s) ==
    IF StartsWith(s, <<".", ".", "/">>) \/ s = DotDot
    THEN StripDotDotLoop(StripDotDotOnce(s))
    ELSE s

sanitizePath(inputPath) ==
    StripDotDotLoop(StripLeadingSlashes(normalize(StripNul(inputPath))))

WithinBase(absolutePath, normalizedBase) ==
    absolutePath = normalizedBase \/ StartsWith(absolutePath, normalizedBase \o <<"/">>)

\* the absolute path isPathSafe compares with the base: it sanitizes its
\* argument again before resolving it
CheckedPath(inputPath, basePath) == resolve(basePath, sanitizePath(inputPath))

isPathSafe(inputPath, basePath) ==
    WithinBase(CheckedPath(inputPath, basePath), resolve(basePath, <<>>))

validateFilePath(filePath) ==
    IF filePath = <<>>
    THEN [valid |-> FALSE, error |-> "File path is required"]
    ELSE IF Len(filePath) > MAX_PATH_LENGTH
    THEN [valid |-> FALSE, error |-> "File path too long"]
    ELSE IF \E i \in 1..Len(filePath) : filePath[i] = NUL
    THEN [valid |-> FALSE, error |-> "Invalid characters in path"]
    ELSE IF ~isPathSafe(sanitizePath(filePath), PROJECT_ROOT)
    THEN [valid |-> FALSE, error |-> "Path outside project directory"]
    ELSE [valid |-> TRUE, sanitized |-> sanitizePath(filePath)]

(***************************************************************************)
(* FileStore (server/services/fileService.ts)                              *)
(*                                                                         *)
(* A call record says what the operation did: it was rejected with an      *)
(* error before any filesystem access, or it handed fullPath to the        *)
(* filesystem (fs.stat, fs.readFile, fs.writeFile, fs.rm, fs.readdir).     *)
(* approved is the absolute path the boundary check compared with the      *)
(* project root.                                                           *)
(***************************************************************************)
NoPath == <<"-">>

NoCall ==
    [op |-> "none", arg |-> <<>>, outcome |-> "none", error |-> "",
     sanitized |-> NoPath, fullPath |-> NoPath, approved |-> NoPath, mkdir |-> NoPath]

Rejected(op, arg, error) ==
    [op |-> op, arg |-> arg, outcome |-> "error", error |-> error,
     sanitized |-> NoPath, fullPath |-> NoPath, approved |-> NoPath, mkdir |-> NoPath]

Accessed(op, arg, sanitized, fullPath, mkdir) ==
    [op |-> op, arg |-> arg, outcome |-> "fs", error |-> "",
     sanitized |-> sanitized, fullPath |-> fullPath,
     approved |-> CheckedPath(sanitized, PROJECT_ROOT), mkdir |-> mkdir]

AccessDenied == "Access denied: path outside project directory"

readFile(filePath) ==
    LET validation == validateFilePath(filePath)
    IN IF ~validation.valid THEN Rejected("readFile", filePath, validation.error)
       ELSE LET sanitized == validation.sanitized
                fullPath == join(PROJECT_ROOT, sanitized)
            IN IF ~isPathSafe(sanitized, PROJECT_ROOT)
               THEN Rejected("readFile", filePath, AccessDenied)
               ELSE Accessed("readFile", filePath, sanitized, fullPath, NoPath)

writeFile(filePath) ==
    LET validation == validateFilePath(filePath)
    IN IF ~validation.valid THEN Rejected("writeFile", filePath, validation.error)
       ELSE LET sanitized == validation.sanitized
                fullPath == join(PROJECT_ROOT, sanitized)
            IN IF ~isPathSafe(sanitized, PROJECT_ROOT)
               THEN Rejected("writeFile", filePath, AccessDenied)
               ELSE Accessed("writeFile", filePath, sanitized, fullPath, dirname(fullPath))

deleteFile(filePath) ==
    LET validation == validateFilePath(filePath)
    IN IF ~validation.valid THEN Rejected("deleteFile", filePath, validation.error)
       ELSE LET sanitized == validation.sanitized
                fullPath == join(PROJECT_ROOT, sanitized)
            IN IF ~isPathSafe(sanitized, PROJECT_ROOT)
               THEN Rejected("deleteFile", filePath, AccessDenied)
               ELSE Accessed("deleteFile", filePath, sanitized, fullPath, NoPath)

listFiles(dirPath) ==
    LET sanitized == sanitizePath(dirPath)
        fullPath == join(PROJECT_ROOT, sanitized)
    IN IF ~isPathSafe(sanitized, PROJECT_ROOT)
       THEN Rejected("listFiles", dirPath, AccessDenied)
       ELSE Accessed("listFiles", dirPath, sanitized, fullPath, NoPath)

getProjectStructure(dirPath) ==
    LET sanitized == sanitizePath(dirPath)
        fullPath == join(PROJECT_ROOT, sanitized)
    IN IF ~isPathSafe(sanitized, PROJECT_ROOT)
       THEN Rejected("getProjectStructure", dirPath, AccessDenied)
       ELSE Accessed("getProjectStructure", dirPath, sanitized, fullPath, NoPath)

FileOps == {"readFile", "writeFile", "deleteFile", "listFiles", "getProjectStructure"}

(***************************************************************************)
(* CommandValidator (server/middleware/security.ts; the content service    *)
(* carries an identical copy)                                              *)
(***************************************************************************)
SAFE_COMMANDS ==
    <<<<"l","s">>, <<"c","a","t">>, <<"h","e","a","d">>, <<"t","a","i","l">>,
      <<"w","c">>, <<"g","r","e","p">>, <<"f","i","n","d">>, <<"e","c","h","o">>,
      <<"p","w","d">>, <<"d","a","t","e">>, <<"w","h","o","a","m","i">>,
      <<"e","n","v">>, <<"n","o","d","e">>, <<"n","p","m">>, <<"n","p","x">>,
      <<"p","n","p","m">>, <<"y","a","r","n">>, <<"g","i","t">>,
      <<"w","h","i","c","h">>, <<"m","k","d","i","r">>, <<"t","o","u","c","h">>,
      <<"c","p">>, <<"m","v">>, <<"r","m">>>>

\* the characters \s matches among those a command line is built from
Whitespace == {" ", "\t", "\n"}

\* the backquote character
BACKTICK == "BACKTICK"

\* A regular expression is a sequence of items: a literal string, a
\* character class, \s+ or .* ; BLOCKED_PATTERNS lists the nine of the code.
Lit(text) == <<"lit", text>>

Class(chars) == <<"class", chars>>

WsPlus == <<"ws+">>

AnyStar == <<"any*">>

BLOCKED_PATTERNS ==
    << <<Class({";", "&", "|", BACKTICK, "$", "(", ")"})>>,
       <<Lit(<<"/","e","t","c","/">>)>>,
       <<Lit(<<"/","p","r","o","c","/">>)>>,
       <<Lit(<<"/","s","y","s","/">>)>>,
       <<Lit(<<"r","m">>), WsPlus, Lit(<<"-","r","f">>), WsPlus, Lit(<<"/">>)>>,
       <<Lit(<<"s","u","d","o">>)>>,
       <<Lit(<<"c","h","m","o","d">>), WsPlus, Lit(<<"7","7","7">>)>>,
       <<Lit(<<"c","u","r","l">>), AnyStar, Lit(<<"|">>), AnyStar, Lit(<<"s","h">>)>>,
       <<Lit(<<"w","g","e","t">>), AnyStar, Lit(<<"|">>), AnyStar, Lit(<<"s","h">>)>> >>

\* the pattern matches s from position i on
RECURSIVE MatchFrom(_, _, _)
MatchFrom(pat, s, i) ==
    IF pat = <<>> THEN TRUE
    ELSE LET item == Head(pat)
             rest == Tail(pat)
         IN CASE item[1] = "lit" ->
                   /\ i + Len(item[2]) - 1 <= Len(s)
                   /\ SubSeq(s, i, i + Len(item[2]) - 1) = item[2]
                   /\ MatchFrom(rest, s, i + Len(item[2]))
              [] item[1] = "class" ->
                   /\ i <= Len(s)
                   /\ s[i] \in item[2]
                   /\ MatchFrom(rest, s, i + 1)
              [] item[1] = "ws+" ->
                   \E n \in 1..(Len(s) - i + 1) :
                       /\ \A j \in i..(i + n - 1) : s[j] \in Whitespace
                       /\ MatchFrom(rest, s, i + n)
              [] item[1] = "any*" ->
                   \E n \in 0..(Len(s) - i + 1) :
                       /\ \A j \in i..(i + n - 1) : s[j] # "\n"
                       /\ MatchFrom(rest, s, i + n)

\* RegExp.prototype.test
Test(pat, s) == \E i \in 1..(Len(s) + 1) : MatchFrom(pat, s, i)

\* String.prototype.trim
Trim(s) ==
    LET solid == {i \in 1..Len(s) : s[i] \notin Whitespace}
    IN IF solid = {} THEN <<>>
       ELSE SubSeq(s, CHOOSE i \in solid : \A j \in solid : i <= j,
                      CHOOSE i \in solid : \A j \in solid : j <= i)

\* command.trim().split(/\s+/)[0]
BaseCommand(command) ==
    LET trimmed == Trim(command)
        gaps == {i \in 1..Len(trimmed) : trimmed[i] \in Whitespace}
    IN IF gaps = {} THEN trimmed
       ELSE SubSeq(trimmed, 1, (CHOOSE i \in gaps : \A j \in gaps : i <= j) - 1)

InList(list, x) == \E k \in 1..Len(list) : list[k] = x

\* the verdict with only the deny patterns consulted
isCommandSafeDenyOnly(command) ==
    IF \E k \in 1..Len(BLOCKED_PATTERNS) : Test(BLOCKED_PATTERNS[k], command)
    THEN [safe |-> FALSE, reason |-> <<"blocked pattern", 0>>]
    ELSE [safe |-> TRUE, reason |-> <<>>]

isCommandSafe(command) ==
    LET matched == {k \in 1..Len(BLOCKED_PATTERNS) : Test(BLOCKED_PATTERNS[k], command)}
        baseCommand == BaseCommand(command)
    IN IF matched # {}
       THEN [safe |-> FALSE,
             reason |-> <<"blocked pattern", CHOOSE k \in matched : \A j \in matched : k <= j>>]
       ELSE IF baseCommand = <<>>
       THEN [safe |-> FALSE, reason |-> <<"Empty command">>]
       ELSE IF ~InList(SAFE_COMMANDS, baseCommand)
       THEN [safe |-> FALSE, reason |-> <<"not in the allowed list", baseCommand>>]
       ELSE [safe |-> TRUE, reason |-> <<>>]

(***************************************************************************)
(* CommandRunner (server/services/commandService.ts and its copy in the    *)
(* content service) and its three entry paths                              *)
(***************************************************************************)
NoProc == <<"-">>

\* the runner with the pre-check left out
executeCommandUnchecked(command) ==
    [thrown |-> FALSE, message |-> <<>>, child |-> command]

\* executeCommand: throws `Command rejected: <reason>` on an unsafe verdict,
\* otherwise starts a shell child for the command line
executeCommand(command) ==
    LET safety == isCommandSafe(command)
    IN IF ~safety.safe
       THEN [thrown |-> TRUE, message |-> <<"Command rejected", safety.reason>>,
             child |-> NoProc]
       ELSE [thrown |-> FALSE, message |-> <<>>, child |-> command]

NoRun ==
    [entry |-> "none", command |-> <<>>, runner |-> FALSE, status |-> 0,
     isError |-> FALSE, message |-> <<>>, child |-> NoProc, verdict |-> <<>>]

\* POST /api/execute of the main server: executeCommandSchema (command of
\* at least one character), then executeCommand; any error answers 400
PostExecuteMain(command) ==
    IF command = <<>>
    THEN [NoRun EXCEPT !.entry = "main POST /api/execute", !.command = command,
                       !.status = 400, !.message = <<"Command is required">>]
    ELSE LET r == executeCommand(command)
         IN [NoRun EXCEPT !.entry = "main POST /api/execute", !.command = command,
                          !.runner = TRUE,
                          !.status = IF r.thrown THEN 400 ELSE 200,
                          !.message = r.message, !.child = r.child]

\* POST /api/execute of the content service: the body goes to executeCommand
\* as it is; any error answers 500
PostExecuteContent(command) ==
    LET r == executeCommand(command)
    IN [NoRun EXCEPT !.entry = "content POST /api/execute", !.command = command,
                     !.runner = TRUE,
                     !.status = IF r.thrown THEN 500 ELSE 200,
                     !.message = r.message, !.child = r.child]

\* tools/call execute_command: handleToolCall calls executeCommand; a thrown
\* error becomes a result with isError and the text `Error: <message>`
McpExecuteCommand(command) ==
    LET r == executeCommand(command)
    IN [NoRun EXCEPT !.entry = "tools/call execute_command", !.command = command,
                     !.runner = TRUE, !.status = 200,
                     !.isError = r.thrown,
                     !.message = r.message, !.child = r.child]

IdleCmd == cmdline = <<>> /\ cmdTyped = 0 /\ run = NoRun

IdlePath == input = <<>> /\ typed = 0 /\ call = NoCall

(***************************************************************************)
(* CommandRunner's child process: the timeout option each entry path hands *)
(* to exec, and the result executeCommand makes of the way the child ends  *)
(***************************************************************************)
\* a request that leaves timeout out
Undefined == -1

DEFAULT_TIMEOUT == 10000

MIN_TIMEOUT == 1000

MAX_TIMEOUT == 30000

\* executeCommandSchema on the timeout member:
\*   z.number().min(1000).max(30000).optional().default(10000)
executeCommandSchema(timeoutArg) ==
    IF timeoutArg = Undefined THEN [success |-> TRUE, timeout |-> DEFAULT_TIMEOUT]
    ELSE IF timeoutArg < MIN_TIMEOUT \/ timeoutArg > MAX_TIMEOUT
    THEN [success |-> FALSE, timeout |-> Undefined]
    ELSE [success |-> TRUE, timeout |-> timeoutArg]

\* const { command, timeout = 10000, cwd } = params
TimeoutOption(timeoutArg) == IF timeoutArg = Undefined THEN DEFAULT_TIMEOUT ELSE timeoutArg

\* the entry paths of a command execution
EntryPaths == {"main POST /api/execute", "content POST /execute", "mcp execute_command"}

\* the timeout exec is called with on an entry path, Undefined when the
\* request is refused before executeCommand
ExecTimeout(entry, timeoutArg) ==
    IF entry = "main POST /api/execute"
    THEN executeCommandSchema(timeoutArg).timeout
    ELSE TimeoutOption(timeoutArg)

\* the way a child ended, as exec reports it: code is 0 for null
NoEnding == [ended |-> FALSE, killed |-> FALSE, signal |-> "", code |-> 0]

Ending(killed, signal, code) ==
    [ended |-> TRUE, killed |-> killed, signal |-> signal, code |-> code]

NoResponseYet == [stdout |-> <<>>, stderr |-> <<>>, exitCode |-> -1, timedOut |-> FALSE]

\* a result that takes every kill for a timeout
ExecuteResponseAnySignal(ending, stdout, stderr) ==
    IF ending.code = 0 /\ ending.signal = ""
    THEN [stdout |-> stdout, stderr |-> stderr, exitCode |-> 0, timedOut |-> FALSE]
    ELSE IF ending.signal # ""
    THEN [stdout |-> stdout,
          stderr |-> IF stderr = <<>> THEN <<"Command timed out">> ELSE stderr,
          exitCode |-> 124, timedOut |-> TRUE]
    ELSE [stdout |-> stdout,
          stderr |-> IF stderr = <<>> THEN <<"Command failed">> ELSE stderr,
          exitCode |-> IF ending.code = 0 THEN 1 ELSE ending.code, timedOut |-> FALSE]

\* the try/catch around execAsync: the result of a child that ended
ExecuteResponse(ending, stdout, stderr) ==
    IF ending.code = 0 /\ ending.signal = ""
    THEN [stdout |-> stdout, stderr |-> stderr, exitCode |-> 0, timedOut |-> FALSE]
    ELSE IF ending.killed /\ ending.signal = "SIGTERM"
    THEN [stdout |-> stdout,
          stderr |-> IF stderr = <<>> THEN <<"Command timed out">> ELSE stderr,
          exitCode |-> 124, timedOut |-> TRUE]
    ELSE [stdout |-> stdout,
          stderr |-> IF stderr = <<>> THEN <<"Command failed">> ELSE stderr,
          exitCode |-> IF ending.code = 0 THEN 1 ELSE ending.code, timedOut |-> FALSE]

\* the instants the clock of an execution passes through, in milliseconds
Instants == <<0, 500, 1000, 10000, 30000, 60000>>

NoExec ==
    [phase |-> "idle", entry |-> "none", command |-> <<>>, timeoutArg |-> Undefined,
     timeout |-> Undefined, clock |-> 1, stdout |-> <<>>, stderr |-> <<>>,
     timerFired |-> FALSE, ending |-> NoEnding, result |-> NoResponseYet,
     status |-> 0, raised |-> FALSE]

IdleRun == exec = NoExec

\* chunks of output a child is followed for
MaxOutput == 2

\* a request for a command execution arrives on an entry path: it is refused
\* (by the schema of the main server, or by the validator) or its child is
\* started under the timeout the entry path passes on
Execute(entry, command, timeoutArg) ==
    /\ exec.phase = "idle"
    /\ LET refusedBySchema ==
               /\ entry = "main POST /api/execute"
               /\ (command = <<>> \/ ~executeCommandSchema(timeoutArg).success)
           r == executeCommand(command)
           errorStatus == CASE entry = "main POST /api/execute" -> 400
                            [] entry = "content POST /execute" -> 500
                            [] OTHER -> 200
       IN exec' = IF refusedBySchema \/ r.thrown
                  THEN [NoExec EXCEPT !.phase = "refused", !.entry = entry,
                                      !.command = command, !.timeoutArg = timeoutArg,
                                      !.status = errorStatus, !.raised = TRUE]
                  ELSE [NoExec EXCEPT !.phase = "running", !.entry = entry,
                                      !.command = command, !.timeoutArg = timeoutArg,
                                      !.timeout = ExecTimeout(entry, timeoutArg)]
    /\ UNCHANGED notRunVars

\* the child writes a chunk to one of its streams
ChildWrites(stream) ==
    /\ exec.phase = "running"
    /\ Len(exec.stdout) + Len(exec.stderr) < MaxOutput
    /\ exec' = IF stream = "stdout"
               THEN [exec EXCEPT !.stdout = Append(@, "out")]
               ELSE [exec EXCEPT !.stderr = Append(@, "err")]
    /\ UNCHANGED notRunVars

\* time passes; the timer of exec fires no later than its timeout (a timeout
\* of 0 sets no timer)
Tick ==
    /\ exec.phase = "running"
    /\ exec.clock < Len(Instants)
    /\ ~(exec.timeout > 0 /\ ~exec.timerFired /\ Instants[exec.clock] >= exec.timeout)
    /\ exec' = [exec EXCEPT !.clock = @ + 1]
    /\ UNCHANGED notRunVars

Finished(ending) ==
    [exec EXCEPT !.phase = "done", !.ending = ending, !.status = 200,
                 !.result = ExecuteResponse(ending, exec.stdout, exec.stderr)]

\* the child ends by itself with an exit status; if the timer has fired it
\* has handled the signal, and exec reports killed with no signal
ChildExits(code) ==
    /\ exec.phase = "running"
    /\ exec' = Finished(Ending(exec.timerFired, "", code))
    /\ UNCHANGED notRunVars

\* the timer of exec fires: exec marks the child killed and sends SIGTERM
TimerFires ==
    /\ exec.phase = "running"
    /\ exec.timeout > 0
    /\ ~exec.timerFired
    /\ Instants[exec.clock] >= exec.timeout
    /\ exec' = [exec EXCEPT !.timerFired = TRUE]
    /\ UNCHANGED notRunVars

\* the child dies of a signal: the SIGTERM of the timer once it has fired, or
\* a signal of somebody else
ChildKilled(signal) ==
    /\ exec.phase = "running"
    /\ exec' = Finished(Ending(exec.timerFired, signal, 0))
    /\ UNCHANGED notRunVars

(***************************************************************************)
(* McpSession and JSON-RPC dispatch (mcpService of the main server and of  *)
(* the integration service)                                                *)
(***************************************************************************)
McpServices == {"main", "integration"}

\* the tool registries, by name, in registry order
MCP_TOOLS_MAIN ==
    <<"read_file", "write_file", "list_files", "delete_file", "execute_command",
      "get_project_structure", "create_directory">>

MCP_TOOLS_INTEGRATION ==
    <<"github_list_repos", "github_get_repo", "vercel_list_projects",
      "vercel_list_deployments", "supabase_query", "n8n_list_workflows",
      "n8n_execute_workflow", "gcloud_list_instances">>

\* one registry for both services
MCP_TOOLS_MERGED(svc) == MCP_TOOLS_MAIN \o MCP_TOOLS_INTEGRATION

MCP_TOOLS(svc) == IF svc = "main" THEN MCP_TOOLS_MAIN ELSE MCP_TOOLS_INTEGRATION

ServerName(svc) == IF svc = "main" THEN "replit-mcp-server" ELSE "integration-mcp-server"

\* a member a request leaves out
Absent == <<"undefined">>

\* params that are left out, or that carry no name: !params?.name holds of both
NoParams == [name |-> "", arguments |-> [path |-> Absent, command |-> Absent]]

\* what the file system or the child process does once an operation reaches it
IoOutcomes == {"ok", "ENOENT", "EACCES"}

Returned(value) == [thrown |-> FALSE, message |-> <<>>, value |-> value]

Thrown(message) == [thrown |-> TRUE, message |-> message, value |-> ""]

\* a file operation behind a tool: its own rejection, or the outcome of the
\* file system with ENOENT turned into notFound where the operation does so
FileTool(called, io, notFound) ==
    IF called.outcome = "error" THEN Thrown(<<called.error>>)
    ELSE IF io = "ok" THEN Returned(called.op)
    ELSE IF io = "ENOENT" /\ notFound # "" THEN Thrown(<<notFound>>)
    ELSE Thrown(<<io>>)

\* args.path || "."
OrDot(p) == IF p = <<>> THEN <<".">> ELSE p

PathArg(args) == IF args.path = Absent THEN <<>> ELSE args.path

\* handleToolCall of the main server
handleToolCall(name, args, io) ==
    CASE name = "read_file" -> FileTool(readFile(PathArg(args)), io, "File not found")
      [] name = "write_file" -> FileTool(writeFile(PathArg(args)), io, "")
      [] name = "list_files" ->
             FileTool(listFiles(OrDot(PathArg(args))), io, "Directory not found")
      [] name = "delete_file" -> FileTool(deleteFile(PathArg(args)), io, "File not found")
      [] name = "execute_command" ->
             IF args.command = Absent
             THEN Thrown(<<"TypeError">>)
             ELSE LET r == executeCommand(args.command)
                  IN IF r.thrown THEN Thrown(r.message) ELSE Returned("executeCommand")
      [] name = "get_project_structure" ->
             FileTool(getProjectStructure(OrDot(PathArg(args))), io, "")
      [] name = "create_directory" ->
             FileTool(writeFile((IF args.path = Absent
                                 THEN <<"u","n","d","e","f","i","n","e","d">>
                                 ELSE args.path) \o <<"/",".","g","i","t","k","e","e","p">>), io, "")
      [] OTHER -> Thrown(<<"Unknown tool", name>>)

NoError == [code |-> 0, message |-> <<>>]

NoResult == [kind |-> "none", tools |-> <<>>, text |-> <<>>, isError |-> FALSE]

NoResponse == [id |-> 0, error |-> NoError, result |-> NoResult]

createResponse(id, result) == [id |-> id, error |-> NoError, result |-> result]

createErrorResponse(id, code, message) ==
    [id |-> id, error |-> [code |-> code, message |-> message], result |-> NoResult]

\* the answer to tools/call on the main server: the tool's value, or its
\* exception as text with isError
\* an answer that turns the tool's exception into a JSON-RPC error
ToolCallResultAsError(id, r) ==
    IF r.thrown
    THEN createErrorResponse(id, -32000, r.message)
    ELSE createResponse(id, [NoResult EXCEPT !.kind = "content", !.text = <<r.value>>])

ToolCallResult(id, r) ==
    IF r.thrown
    THEN createResponse(id, [NoResult EXCEPT !.kind = "content",
                                             !.text = <<"Error">> \o r.message,
                                             !.isError = TRUE])
    ELSE createResponse(id, [NoResult EXCEPT !.kind = "content", !.text = <<r.value>>])

ToolCallMain(id, params, io) ==
    ToolCallResult(id, handleToolCall(params.name, params.arguments, io))

\* the answer to tools/call on the integration service: an echo of the call
ToolCallIntegration(id, params) ==
    createResponse(id, [NoResult EXCEPT !.kind = "content",
                                        !.text = <<"Tool called", params.name>>])

\* a switch that hands tools/call to the tool without looking for a name
DispatchNameNotRequired(svc, message, io) ==
    CASE message.method = "tools/call" ->
             IF svc = "main" THEN ToolCallMain(message.id, message.params, io)
             ELSE ToolCallIntegration(message.id, message.params)
      [] message.method = "tools/list" ->
             createResponse(message.id, [NoResult EXCEPT !.kind = "tools",
                                                         !.tools = MCP_TOOLS(svc)])
      [] message.method \in {"initialize", "initialized", "ping"} ->
             createResponse(message.id, [NoResult EXCEPT !.kind = "empty"])
      [] OTHER -> createErrorResponse(message.id, -32601,
                                      <<"Method not found", message.method>>)

\* the switch of processMCPMessage
Dispatch(svc, message, io) ==
    LET id == message.id
        method == message.method
        params == message.params
    IN CASE method = "initialize" ->
                createResponse(id, [NoResult EXCEPT !.kind = "initialize",
                                                    !.text = <<ServerName(svc)>>])
         [] method = "initialized" -> createResponse(id, [NoResult EXCEPT !.kind = "empty"])
         [] method = "tools/list" ->
                createResponse(id, [NoResult EXCEPT !.kind = "tools", !.tools = MCP_TOOLS(svc)])
         [] method = "tools/call" ->
                IF params.name = ""
                THEN createErrorResponse(id, -32602, <<"Missing tool name">>)
                ELSE IF svc = "main" THEN ToolCallMain(id, params, io)
                ELSE ToolCallIntegration(id, params)
         [] method = "ping" -> createResponse(id, [NoResult EXCEPT !.kind = "empty"])
         [] method = "notifications/cancelled" /\ svc = "main" ->
                createResponse(id, [NoResult EXCEPT !.kind = "empty"])
         [] OTHER -> createErrorResponse(id, -32601, <<"Method not found", method>>)

\* the tool the dispatch hands to the backend, "none" when it calls none
ToolInvoked(svc, message) ==
    IF /\ svc = "main"
       /\ message.method = "tools/call"
       /\ message.params.name # ""
    THEN message.params.name
    ELSE "none"

\* a frame of an SSE stream
MessageFrame(data) == [event |-> "message", notification |-> "", response |-> data]

InitializedFrame ==
    [event |-> "message", notification |-> "server/initialized", response |-> NoResponse]

PingFrame == [event |-> ":ping", notification |-> "", response |-> NoResponse]

SessionIds == {"s1", "s2"}

NoSession == "none"

\* a session: created is false until GET /mcp builds it
NewSession == [created |-> FALSE, isConnected |-> FALSE, keepAliveInterval |-> FALSE,
               stream |-> <<>>]

\* sendEvent on a session record: nothing once disconnected; a failed write
\* disconnects
\* a disconnect that leaves the timer armed
disconnectKeepTimer(session) == [session EXCEPT !.isConnected = FALSE]

disconnect(session) == [session EXCEPT !.isConnected = FALSE, !.keepAliveInterval = FALSE]

sendEvent(session, frame, writeOk) ==
    IF ~session.isConnected THEN session
    ELSE IF writeOk THEN [session EXCEPT !.stream = Append(@, frame)]
    ELSE disconnect(session)

sendMessage(session, data, writeOk) == sendEvent(session, MessageFrame(data), writeOk)

\* handleMCPConnection: a new session with its timer started, and the
\* server/initialized notification as its first frame
handleMCPConnection(writeOk) ==
    sendEvent([NewSession EXCEPT !.created = TRUE, !.isConnected = TRUE,
                                 !.keepAliveInterval = TRUE],
              InitializedFrame, writeOk)

\* processMCPMessage(message, session): the response, and the sessions after
\* the response has been pushed through the attached session, if any
\* a completion that returns the response and pushes nothing
pushResponseNever(response, attached, all, writeOk) ==
    [response |-> response, sessions |-> all]

pushResponse(response, attached, all, writeOk) ==
    [response |-> response,
     sessions |-> IF attached # NoSession /\ all[attached].isConnected
                  THEN [all EXCEPT ![attached] = sendMessage(@, response, writeOk)]
                  ELSE all]

processMCPMessage(svc, message, attached, all, io, writeOk) ==
    pushResponse(Dispatch(svc, message, io), attached, all, writeOk)

NoRpc ==
    [message |-> [id |-> 0, method |-> "", params |-> NoParams], dispatched |-> FALSE,
     status |-> 0, response |-> NoResponse, tool |-> "none", thrown |-> FALSE, io |-> "ok"]

IdleMcp ==
    /\ mcpService = "main"
    /\ sessions = [s \in SessionIds |-> NewSession]
    /\ rpc = NoRpc

notMcpVars == <<pathVars, cmdVars, gateVars, notifyVars, restVars>>

\* frames a stream is followed for
MaxFrames == 2

NoInflight ==
    [pending |-> FALSE, attached |-> NoSession,
     message |-> [id |-> 0, method |-> "", params |-> NoParams], io |-> "ok"]

IdleSse == inflight = NoInflight

\* GET /mcp: opens an SSE session
GetMcp(s, writeOk) ==
    /\ ~sessions[s].created
    /\ sessions' = [sessions EXCEPT ![s] = handleMCPConnection(writeOk)]
    /\ UNCHANGED <<mcpService, rpc, notMcpVars>>

\* a tick whose failed write closes every session
KeepAliveTickShared(s, writeOk) ==
    /\ sessions[s].keepAliveInterval
    /\ Len(sessions[s].stream) < MaxFrames
    /\ sessions' = IF writeOk THEN [sessions EXCEPT ![s] = sendEvent(@, PingFrame, writeOk)]
                   ELSE [t \in SessionIds |-> disconnect(sessions[t])]
    /\ UNCHANGED <<mcpService, rpc, notMcpVars>>

\* the 30-second timer of a session fires
KeepAliveTick(s, writeOk) ==
    /\ sessions[s].keepAliveInterval
    /\ Len(sessions[s].stream) < MaxFrames
    /\ sessions' = [sessions EXCEPT ![s] = sendEvent(@, PingFrame, writeOk)]
    /\ UNCHANGED <<mcpService, rpc, notMcpVars>>

\* a close that also drops the message being processed
ClientCloseCancels(s) ==
    /\ sessions[s].created
    /\ sessions' = [sessions EXCEPT ![s] = disconnect(@)]
    /\ inflight' = NoInflight
    /\ UNCHANGED <<mcpService, rpc, notSseVars>>

\* req.on("close"): the client of a session goes away
ClientClose(s) ==
    /\ sessions[s].created
    /\ sessions' = [sessions EXCEPT ![s] = disconnect(@)]
    /\ UNCHANGED <<mcpService, rpc, notMcpVars>>

\* POST /mcp: the body is validated (main server), then processed with no
\* session attached, and the response is the HTTP answer
PostMcp(message, wellFormed, io) ==
    /\ IF mcpService = "main" /\ ~wellFormed
       THEN /\ rpc' = [NoRpc EXCEPT !.message = message, !.status = 400,
                         !.response = createErrorResponse(0, -32600, <<"Invalid Request">>)]
            /\ UNCHANGED sessions
       ELSE \E p \in {processMCPMessage(mcpService, message, NoSession, sessions, io, TRUE)} :
               /\ rpc' = [NoRpc EXCEPT !.message = message, !.dispatched = TRUE,
                            !.io = io, !.status = 200, !.response = p.response,
                            !.tool = ToolInvoked(mcpService, message)]
               /\ sessions' = p.sessions
    /\ UNCHANGED <<mcpService, notMcpVars>>

(***************************************************************************)
(* processMCPMessage with a session attached: the message is taken, the    *)
(* tool behind it runs, and on completion the response is pushed through   *)
(* the session if it is still active, and returned                         *)
(***************************************************************************)
\* processMCPMessage(message, session) is called: the dispatch starts, and
\* with it the file or command operation of a tool call
BeginCall(attached, message, io) ==
    /\ ~inflight.pending
    /\ attached # NoSession =>
           (sessions[attached].isConnected /\ Len(sessions[attached].stream) < MaxFrames)
    /\ inflight' = [pending |-> TRUE, attached |-> attached, message |-> message, io |-> io]
    /\ UNCHANGED <<mcpVars, notSseVars>>

\* the operation ends: the response is built, pushed through the attached
\* session if that is active now, and returned to the caller
CompleteCall(writeOk) ==
    /\ inflight.pending
    /\ \E p \in {processMCPMessage(mcpService, inflight.message, inflight.attached,
                                   sessions, inflight.io, writeOk)} :
           /\ rpc' = [NoRpc EXCEPT !.message = inflight.message, !.dispatched = TRUE,
                                   !.io = inflight.io, !.status = 200,
                                   !.response = p.response,
                                   !.tool = ToolInvoked(mcpService, inflight.message)]
           /\ sessions' = p.sessions
    /\ inflight' = NoInflight
    /\ UNCHANGED <<mcpService, notSseVars>>

(***************************************************************************)
(* Notification service (the notify functions that follow the validators   *)
(* in server/middleware/security.ts)                                       *)
(***************************************************************************)
severityLevels == [info |-> 0, warning |-> 1, error |-> 2, critical |-> 3]

defaultConfig ==
    [enabled |-> TRUE, console |-> TRUE, webhook |-> FALSE, email |-> FALSE,
     minSeverity |-> "warning"]

MAX_HISTORY == 1000

\* a comparison with the level of an unknown severity name is false
shouldNotify(cfg, severity) ==
    /\ cfg.enabled
    /\ cfg.minSeverity \in DOMAIN severityLevels
    /\ severityLevels[severity] >= severityLevels[cfg.minSeverity]

\* the channels an event is delivered on, in the order notify tries them
Channels(cfg) ==
    (IF cfg.console THEN <<"console">> ELSE <<>>)
    \o (IF cfg.webhook THEN <<"webhook">> ELSE <<>>)
    \o (IF cfg.email THEN <<"email">> ELSE <<>>)

\* notify: the history after the call; the event goes to the front and the
\* oldest one is dropped past MAX_HISTORY
notify(cfg, history, severity, type, title, metadata) ==
    IF ~shouldNotify(cfg, severity) THEN history
    ELSE LET event == [severity |-> severity, type |-> type, title |-> title,
                       metadata |-> metadata, channels |-> Channels(cfg),
                       sent |-> TRUE]
             longer == <<event>> \o history
         IN IF Len(longer) > MAX_HISTORY THEN SubSeq(longer, 1, Len(longer) - 1)
            ELSE longer

\* the misuse notification with the reason always reported as missing
notifyApiKeyMisuseOneReason(cfg, history, ip, path, reason) ==
    notify(cfg, history, "warning", "api_key_misuse", "API Key Missing",
           [ip |-> ip, path |-> path, reason |-> "missing"])

notifyApiKeyMisuse(cfg, history, ip, path, reason) ==
    notify(cfg, history, "warning", "api_key_misuse",
           IF reason = "missing" THEN "API Key Missing" ELSE "API Key Invalid",
           [ip |-> ip, path |-> path, reason |-> reason])

\* an absent member of the update is <<>>, a present one <<value>>
NoUpdate == [enabled |-> <<>>, minSeverity |-> <<>>, console |-> <<>>]

updateNotificationConfig(cfg, updates) ==
    [cfg EXCEPT
        !.enabled = IF updates.enabled # <<>> THEN updates.enabled[1] ELSE @,
        !.minSeverity = IF updates.minSeverity # <<>> THEN updates.minSeverity[1] ELSE @,
        !.console = IF updates.console # <<>> THEN updates.console[1] ELSE @]

IdleNotify == config = defaultConfig /\ notificationHistory = <<>>

\* the service after PUT /api/notifications/config {enabled: false}
MutedNotify ==
    /\ config = updateNotificationConfig(defaultConfig, [NoUpdate EXCEPT !.enabled = <<FALSE>>])
    /\ notificationHistory = <<>>

\* events the history is followed for
MaxEvents == 2

(***************************************************************************)
(* FileStore on a file system: what fs.stat, fs.mkdir, fs.writeFile,       *)
(* fs.readFile, fs.unlink and fs.rm do to the tree under the project root, *)
(* and what readFile, writeFile and deleteFile make of it                  *)
(***************************************************************************)
\* the directories above an absolute path, the root directory left out
ProperAncestors(path) == {SubSeq(path, 1, i - 1) : i \in {j \in 2..Len(path) : path[j] = "/"}}

EmptyDisk == [dirs |-> ProperAncestors(PROJECT_ROOT) \cup {PROJECT_ROOT}, files |-> {}]

IsFile(d, path) == \E f \in d.files : f.path = path

ContentOf(d, path) == (CHOOSE f \in d.files : f.path = path).content

\* fs.stat: the kind of the entry, or the code it fails with
stat(d, path) ==
    IF \E a \in ProperAncestors(path) : IsFile(d, a) THEN "ENOTDIR"
    ELSE IF IsFile(d, path) THEN "file"
    ELSE IF path \in d.dirs THEN "dir"
    ELSE "ENOENT"

\* fs.mkdir(dir, {recursive: true}): the code it fails with, "" when it succeeds
mkdirCode(d, dir) ==
    IF \E a \in ProperAncestors(dir) : IsFile(d, a) THEN "ENOTDIR"
    ELSE IF IsFile(d, dir) THEN "EEXIST"
    ELSE ""

mkdir(d, dir) == [d EXCEPT !.dirs = @ \cup ProperAncestors(dir) \cup {dir}]

\* fs.writeFile: creates the file or replaces its content
fsWriteFile(d, path, content) ==
    [d EXCEPT !.files = {f \in @ : f.path # path} \cup {[path |-> path, content |-> content]}]

unlink(d, path) == [d EXCEPT !.files = {f \in @ : f.path # path}]

\* fs.rm(path, {recursive: true})
rm(d, path) ==
    [dirs |-> {x \in d.dirs : x # path /\ ~StartsWith(x, path \o <<"/">>)},
     files |-> {f \in d.files : ~StartsWith(f.path, path \o <<"/">>)}]

NoContent == "-"

NoPrev == [op |-> "none", path |-> <<>>, content |-> NoContent, outcome |-> "none"]

NoFileOp ==
    [op |-> "none", path |-> <<>>, io |-> "ok", content |-> NoContent, isDirectory |-> FALSE,
     outcome |-> "none", error |-> "", prev |-> NoPrev]

Summary(o) == [op |-> o.op, path |-> o.path, content |-> o.content, outcome |-> o.outcome]

Raised(op, path, io, error) ==
    [NoFileOp EXCEPT !.op = op, !.path = path, !.io = io, !.outcome = "raised",
                     !.error = error, !.prev = Summary(fileOp)]

Done(op, path, io, content, isDirectory) ==
    [NoFileOp EXCEPT !.op = op, !.path = path, !.io = io, !.outcome = "returned",
                     !.content = content, !.isDirectory = isDirectory,
                     !.prev = Summary(fileOp)]

\* the catch of readFile and deleteFile with every code rethrown as it is
RethrowAll(code) == code

\* the catch of readFile and deleteFile: ENOENT becomes File not found, any
\* other error is rethrown as it is
NotFoundOrRethrow(code) == IF code = "ENOENT" THEN "File not found" ELSE RethrowAll(code)

IdleDisk == disk = EmptyDisk /\ fileOp = NoFileOp

\* readFile on the tree; io is the code fs.stat fails with for a reason
\* outside the tree
ReadRequest(filePath, io) ==
    /\ \E called \in {readFile(filePath)} :
       LET st == stat(disk, called.fullPath)
       IN fileOp' =
              IF called.outcome = "error" THEN Raised("read", filePath, io, called.error)
              ELSE IF io # "ok" THEN Raised("read", filePath, io, NotFoundOrRethrow(io))
              ELSE IF st = "dir" THEN Done("read", filePath, io, NoContent, TRUE)
              ELSE IF st = "file"
              THEN Done("read", filePath, io, ContentOf(disk, called.fullPath), FALSE)
              ELSE Raised("read", filePath, io, NotFoundOrRethrow(st))
    /\ UNCHANGED <<disk, notDiskVars>>

\* writeFile on the tree: mkdir of the parent, then fs.writeFile
WriteRequest(filePath, content, io) ==
    /\ \E called \in {writeFile(filePath)} :
       LET code == mkdirCode(disk, called.mkdir)
           made == mkdir(disk, called.mkdir)
       IN IF called.outcome = "error"
          THEN /\ fileOp' = Raised("write", filePath, io, called.error)
               /\ UNCHANGED disk
          ELSE IF io # "ok"
          THEN /\ fileOp' = Raised("write", filePath, io, io)
               /\ UNCHANGED disk
          ELSE IF code # ""
          THEN /\ fileOp' = Raised("write", filePath, io, code)
               /\ UNCHANGED disk
          ELSE IF called.fullPath \in made.dirs
          THEN /\ fileOp' = Raised("write", filePath, io, "EISDIR")
               /\ disk' = made
          ELSE /\ fileOp' = Done("write", filePath, io, content, FALSE)
               /\ disk' = fsWriteFile(made, called.fullPath, content)
    /\ UNCHANGED notDiskVars

\* deleteFile on the tree
DeleteRequest(filePath, io) ==
    /\ \E called \in {deleteFile(filePath)} :
       LET st == stat(disk, called.fullPath)
       IN IF called.outcome = "error"
          THEN /\ fileOp' = Raised("delete", filePath, io, called.error)
               /\ UNCHANGED disk
          ELSE IF io # "ok"
          THEN /\ fileOp' = Raised("delete", filePath, io, NotFoundOrRethrow(io))
               /\ UNCHANGED disk
          ELSE IF st = "dir"
          THEN /\ fileOp' = Done("delete", filePath, io, NoContent, TRUE)
               /\ disk' = rm(disk, called.fullPath)
          ELSE IF st = "file"
          THEN /\ fileOp' = Done("delete", filePath, io, NoContent, FALSE)
               /\ disk' = unlink(disk, called.fullPath)
          ELSE /\ fileOp' = Raised("delete", filePath, io, NotFoundOrRethrow(st))
               /\ UNCHANGED disk
    /\ UNCHANGED notDiskVars

(***************************************************************************)
(* getProjectStructure on a file system: buildTree                         *)
(***************************************************************************)
\* the characters of entry names, in the order localeCompare puts them
Collation == <<"_", ".", "a", "b", "c", "d", "e", "f", "h", "l", "m", "n", "o", "p", "s", "u">>

CharRank(c) == CHOOSE k \in 1..Len(Collation) : Collation[k] = c

\* a.localeCompare(b)
RECURSIVE localeCompare(_, _)
localeCompare(a, b) ==
    IF a = <<>> /\ b = <<>> THEN 0
    ELSE IF a = <<>> THEN -1
    ELSE IF b = <<>> THEN 1
    ELSE IF Head(a) = Head(b) THEN localeCompare(Tail(a), Tail(b))
    ELSE IF CharRank(Head(a)) < CharRank(Head(b)) THEN -1
    ELSE 1

\* path.basename of an absolute path
basename(path) ==
    LET slashes == {k \in 1..Len(path) : path[k] = "/"}
        last == CHOOSE k \in slashes : \A j \in slashes : j <= k
    IN Drop(path, last)

\* path.relative(PROJECT_ROOT, path) || "."
relativePath(path) ==
    IF path = PROJECT_ROOT THEN <<".">> ELSE Drop(path, Len(PROJECT_ROOT) + 1)

NODE_MODULES == <<"n","o","d","e","_","m","o","d","u","l","e","s">>

\* the entries buildTree passes over: hidden ones and node_modules
Ignored(name) == StartsWith(name, <<".">>) \/ name = NODE_MODULES

\* fs.readdir: the paths of the entries of a directory
readdir(d, dir) ==
    {x \in d.dirs \cup {f.path : f \in d.files} :
        /\ StartsWith(x, dir \o <<"/">>)
        /\ \A k \in (Len(dir) + 2)..Len(x) : x[k] # "/"}

\* the paths fs.stat fails for and the directories fs.readdir fails for,
\* for a reason outside the tree (permissions, a broken link)
NoFaults == [stat |-> {}, readdir |-> {}]

ThrownNode ==
    [type |-> "thrown", name |-> <<>>, path |-> <<>>, listed |-> FALSE, children |-> <<>>]

\* a comparator that looks at the names only
compareByName(a, b) == localeCompare(a.name, b.name)

\* the comparator of children.sort: directories first, then by name
compareStructure(a, b) ==
    IF a.type # b.type THEN (IF a.type = "directory" THEN -1 ELSE 1)
    ELSE compareByName(a, b)

\* children.sort(compare); the names in one directory differ
RECURSIVE sort(_)
sort(nodes) ==
    IF nodes = {} THEN <<>>
    ELSE LET first == CHOOSE n \in nodes :
                          \A m \in nodes \ {n} : compareStructure(n, m) < 0
         IN <<first>> \o sort(nodes \ {first})

\* whether buildTree reads the entries of a directory at currentDepth
Expands(currentDepth, depth) == currentDepth < depth

\* buildTree(currentPath, currentDepth); a node of type "thrown" stands for
\* an exception
RECURSIVE buildTree(_, _, _, _, _)
buildTree(d, faults, currentPath, currentDepth, depth) ==
    LET st == stat(d, currentPath)
        structure == [type |-> "directory", name |-> basename(currentPath),
                      path |-> relativePath(currentPath), listed |-> FALSE,
                      children |-> <<>>]
    IN IF currentPath \in faults.stat \/ st \notin {"file", "dir"} THEN ThrownNode
       ELSE IF st = "file" THEN [structure EXCEPT !.type = "file"]
       ELSE IF ~Expands(currentDepth, depth) THEN structure
       ELSE IF currentPath \in faults.readdir THEN ThrownNode
       ELSE LET entries == {e \in readdir(d, currentPath) : ~Ignored(basename(e))}
                built == {buildTree(d, faults, e, currentDepth + 1, depth) : e \in entries}
            IN [structure EXCEPT !.listed = TRUE,
                                 !.children = sort({c \in built : c.type # "thrown"})]

NoWalk ==
    [outcome |-> "none", dirPath |-> <<>>, root |-> NoPath, depth |-> 0, faults |-> NoFaults,
     on |-> EmptyDisk, tree |-> ThrownNode]

IdleTree == walk = NoWalk

\* getProjectStructure(dirPath, depth) on the tree; on is the tree it was
\* called on
ProjectRequest(dirPath, depth, faults) ==
    /\ \E called \in {getProjectStructure(dirPath)} :
       \E tree \in {IF called.outcome = "error" THEN ThrownNode
                     ELSE buildTree(disk, faults, called.fullPath, 0, depth)} :
           walk' = [outcome |-> IF tree.type = "thrown" THEN "raised" ELSE "returned",
                    dirPath |-> dirPath, root |-> called.fullPath, depth |-> depth,
                    faults |-> faults, on |-> disk, tree |-> tree]
    /\ UNCHANGED notTreeVars

(***************************************************************************)
(* MemStorage (server/storage.ts): the log records and the counts of       *)
(* requests; durations and the average made of them are left out           *)
(***************************************************************************)
MAX_LOGS == 1000

\* Array.prototype.slice(0, end)
slice(s, end) ==
    IF end < 0 THEN SubSeq(s, 1, IF Len(s) + end > 0 THEN Len(s) + end ELSE 0)
    ELSE SubSeq(s, 1, IF end < Len(s) THEN end ELSE Len(s))

\* an addLog that keeps every record
addLogUnbounded(logs, newLog) == <<newLog>> \o logs

\* addLog: the record goes in front, and the list is cut to MAX_LOGS
addLog(logs, newLog) ==
    IF Len(addLogUnbounded(logs, newLog)) > MAX_LOGS
    THEN slice(addLogUnbounded(logs, newLog), MAX_LOGS)
    ELSE addLogUnbounded(logs, newLog)

getLogs(logs, limit) == slice(logs, limit)

incrementRequests(stats, success) ==
    [totalRequests |-> stats.totalRequests + 1,
     successfulRequests |-> stats.successfulRequests + (IF success THEN 1 ELSE 0),
     failedRequests |-> stats.failedRequests + (IF success THEN 0 ELSE 1)]

NoGot == [asked |-> FALSE, limit |-> 0, logs |-> <<>>]

\* clears and added count the calls of clearLogs, and of addLog since the
\* last of them; answered counts the requests the server has answered; got
\* is what getLogs returned when it was the last call
NoStorage ==
    [logs |-> <<>>,
     stats |-> [totalRequests |-> 0, successfulRequests |-> 0, failedRequests |-> 0],
     clears |-> 0, added |-> 0, answered |-> 0, got |-> NoGot]

IdleLog == storage = NoStorage

\* the record of a request; id is the fresh identifier randomUUID() gives
LogRecord(status, ip) ==
    [id |-> <<storage.clears, storage.added + 1>>, status |-> status, ip |-> ip]

\* records the store is followed for past MAX_LOGS
LogSlack == 2

MaxClears == 1

MaxCounted == 1

\* storage.addLog(log)
AddLog(status, ip) ==
    /\ storage.added < MAX_LOGS + LogSlack
    /\ storage' = [storage EXCEPT !.logs = addLog(@, LogRecord(status, ip)),
                                  !.added = @ + 1, !.got = NoGot]
    /\ UNCHANGED <<gateVars, notifyVars, notLogVars>>

\* storage.getLogs(limit)
GetLogs(limit) ==
    /\ storage' = [storage EXCEPT !.got = [asked |-> TRUE, limit |-> limit,
                                           logs |-> getLogs(storage.logs, limit)]]
    /\ UNCHANGED <<gateVars, notifyVars, notLogVars>>

\* storage.clearLogs()
ClearLogs ==
    /\ storage.clears < MaxClears
    /\ storage' = [storage EXCEPT !.logs = <<>>, !.clears = @ + 1, !.added = 0,
                                  !.got = NoGot]
    /\ UNCHANGED <<gateVars, notifyVars, notLogVars>>

\* storage.incrementRequests(success, duration)
IncrementRequests(success) ==
    /\ storage.stats.totalRequests < MaxCounted
    /\ storage' = [storage EXCEPT !.stats = incrementRequests(@, success), !.got = NoGot]
    /\ UNCHANGED <<gateVars, notifyVars, notLogVars>>

(***************************************************************************)
(* ProxyRouter: the proxies of the main server (server/routes.ts) and of   *)
(* the gateway for /api/content and /api/integration                       *)
(***************************************************************************)
ProxyingServers == {"main", "gateway"}

ProxyPrefixes == {"/api/content", "/api/integration"}

McpName(prefix) == IF prefix = "/api/content" THEN "Content MCP" ELSE "Integration MCP"

UnavailableTitle(mcpName) ==
    IF mcpName = "Content MCP" THEN "MCP Service Unavailable: Content MCP"
    ELSE "MCP Service Unavailable: Integration MCP"

UnavailableError(prefix) ==
    IF prefix = "/api/content" THEN "Content MCP unavailable"
    ELSE "Integration MCP unavailable"

\* the notification without the failure detail
notifyMcpUnavailableNoDetail(cfg, history, mcpName, errorMessage) ==
    notify(cfg, history, "critical", "mcp_unavailable", UnavailableTitle(mcpName),
           [mcpName |-> mcpName, error |-> ""])

notifyMcpUnavailable(cfg, history, mcpName, errorMessage) ==
    notify(cfg, history, "critical", "mcp_unavailable", UnavailableTitle(mcpName),
           [mcpName |-> mcpName, error |-> errorMessage])

NoBody == [error |-> "", message |-> ""]

NoProxy ==
    [served |-> 0, failed |-> 0, prefix |-> "none", upstream |-> "none", detail |-> "",
     status |-> 0, body |-> NoBody]

IdleProxy == proxy = NoProxy

\* requests a proxy is followed for
MaxProxied == 3

\* a request under a proxied prefix reaches the proxy: it is forwarded and
\* the answer of the service relayed, or the connection fails and the error
\* handler of the proxy answers
ProxyRequest(prefix, upstream, detail) ==
    /\ server \in ProxyingServers
    /\ proxy.served < MaxProxied
    /\ Len(notificationHistory) < MaxEvents
    /\ IF upstream = "down"
       THEN /\ proxy' = [served |-> proxy.served + 1, failed |-> proxy.failed + 1,
                         prefix |-> prefix, upstream |-> upstream, detail |-> detail,
                         status |-> 503,
                         body |-> [error |-> UnavailableError(prefix), message |-> detail]]
            /\ notificationHistory' =
                   IF server = "main"
                   THEN notifyMcpUnavailable(config, notificationHistory,
                                             McpName(prefix), detail)
                   ELSE notificationHistory
       ELSE /\ proxy' = [served |-> proxy.served + 1, failed |-> proxy.failed,
                         prefix |-> prefix, upstream |-> upstream, detail |-> "",
                         status |-> 200, body |-> NoBody]
            /\ UNCHANGED notificationHistory
    /\ UNCHANGED <<gateVars, config, notProxyVars>>

IPS == {"ip1", "ip2"}

DownstreamServices == {"content", "integration"}

\* the address a downstream service sees a relayed request come from: the
\* socket's peer, which is the proxying server (no server sets 'trust
\* proxy', no limiter has a keyGenerator)
ProxyAddress == "proxy"

\* hits: the counters of a downstream limiter, one for each address it has
\* seen; sent: the requests each client had relayed in the downstream window
NoRelay ==
    [hits |-> [d \in DownstreamServices |-> [a \in {ProxyAddress} |-> 0]],
     sent |-> [d \in DownstreamServices |-> [ip \in IPS |-> 0]],
     forwarded |-> FALSE, ip |-> "none", downstream |-> "none", path |-> <<>>,
     key |-> "", validated |-> FALSE, status |-> 0]

IdleRelay == relay = NoRelay

IdleTail == IdleRelay /\ IdleTree /\ IdleLog

\* the state of the parts that follow the pipeline, before anything happened
IdleRest == IdleRun /\ IdleProxy /\ IdleDisk /\ IdleSse /\ IdleTail

(***************************************************************************)
(* RateLimiter and AuthGate: the middleware pipeline of the four servers   *)
(* (main: server/routes.ts and server/middleware/auth.ts; gateway, content *)
(* and integration: their index files)                                     *)
(***************************************************************************)
Servers == {"main", "gateway", "content", "integration"}

UpperCase ==
    [A |-> "a", B |-> "b", C |-> "c", D |-> "d", E |-> "e", F |-> "f", G |-> "g",
     H |-> "h", I |-> "i", J |-> "j", K |-> "k", L |-> "l", M |-> "m", N |-> "n",
     O |-> "o", P |-> "p", Q |-> "q", R |-> "r", S |-> "s", T |-> "t", U |-> "u",
     V |-> "v", W |-> "w", X |-> "x", Y |-> "y", Z |-> "z"]

ToLower(s) ==
    [i \in 1..Len(s) |-> IF s[i] \in DOMAIN UpperCase THEN UpperCase[s[i]] ELSE s[i]]

\* app.use(mount, ...): the router compares without regard to case and the
\* mount covers the path itself and everything below it
MountMatches(mount, path) ==
    \/ ToLower(path) = mount
    \/ StartsWith(ToLower(path), mount \o <<"/">>)

\* app.get(route, ...) and its siblings: case-insensitive, an optional
\* trailing slash
RouteMatches(route, path) ==
    \/ ToLower(path) = route
    \/ ToLower(path) = route \o <<"/">>

\* a route that ends in /*
WildcardMatches(route, path) == StartsWith(ToLower(path), route \o <<"/">>)

\* express-rate-limit as each server configures it
max == 100

TooManyRequests == [error |-> "Too many requests", message |-> "Please try again later"]

\* main mounts the limiter on /api and /mcp; the other three on every path
LimiterCovers(srv, path) ==
    IF srv = "main"
    THEN MountMatches(<<"/","a","p","i">>, path) \/ MountMatches(<<"/","m","c","p">>, path)
    ELSE TRUE

publicPaths == <<<<"/">>, <<"/","d","o","c","s">>, <<"/","a","p","i","-","d","o","c","s">>, <<"/","a","p","i","/","s","t","a","t","s">>, <<"/","a","p","i","/","l","o","g","s">>>>

publicPrefixes ==
    <<<<"/","d","o","c","s">>,
      <<"/","@","v","i","t","e">>,
      <<"/","@","r","e","a","c","t","-","r","e","f","r","e","s","h">>,
      <<"/","@","r","e","p","l","i","t">>,
      <<"/","@","f","s">>,
      <<"/","s","r","c">>,
      <<"/","n","o","d","e","_","m","o","d","u","l","e","s">>,
      <<"/","c","l","i","e","n","t">>,
      <<"/","a","s","s","e","t","s">>,
      <<"/","f","a","v","i","c","o","n">>>>

staticExtensions ==
    <<<<".","j","s">>,
      <<".","c","s","s">>,
      <<".","t","s">>,
      <<".","t","s","x">>,
      <<".","j","s","x">>,
      <<".","h","t","m","l">>,
      <<".","p","n","g">>,
      <<".","s","v","g">>,
      <<".","i","c","o">>,
      <<".","j","s","o","n">>,
      <<".","m","a","p">>>>

\* the paths main's apiKeyAuth lets through before it looks at any key
IsPublicMain(path) ==
    \/ InList(publicPaths, path)
    \/ \E k \in 1..Len(publicPrefixes) : StartsWith(path, publicPrefixes[k])
    \/ /\ \E k \in 1..Len(staticExtensions) : EndsWith(path, staticExtensions[k])
       /\ ~StartsWith(path, <<"/","a","p","i">>)

publicPathsGateway == <<<<"/">>, <<"/","h","e","a","l","t","h">>, <<"/","a","p","i","/","s","t","a","t","u","s">>>>

publicPathsService == <<<<"/">>, <<"/","h","e","a","l","t","h">>>>

IsPublic(srv, path) ==
    CASE srv = "main" -> IsPublicMain(path)
      [] srv = "gateway" -> InList(publicPathsGateway, path)
      [] OTHER -> InList(publicPathsService, path)

\* headers["x-api-key"] || query.api_key, an absent value being ""
Credential(header, query) == IF header # "" THEN header ELSE query

\* the gate with the credential looked at before the configuration
apiKeyAuthCredentialFirst(srv, validApiKey, path, header, query) ==
    LET apiKey == Credential(header, query)
    IN IF IsPublic(srv, path) THEN 0
       ELSE IF apiKey = "" THEN 401
       ELSE IF validApiKey = "" THEN 500
       ELSE IF apiKey # validApiKey THEN 403
       ELSE 0

\* apiKeyAuth: 0 stands for next(), any other value is the status it answers
apiKeyAuth(srv, validApiKey, path, header, query) ==
    LET apiKey == Credential(header, query)
    IN IF IsPublic(srv, path) THEN 0
       ELSE IF validApiKey = "" THEN 500
       ELSE IF apiKey = "" THEN 401
       ELSE IF apiKey # validApiKey THEN 403
       ELSE 0

\* the body the gate of a server sends with a status; a member the body
\* does not have is ""
GateBody(srv, status) ==
    CASE status = 401 ->
             [error |-> "Unauthorized",
              message |-> "Missing X-API-KEY header or api_key query parameter"]
      [] status = 403 -> [error |-> "Forbidden", message |-> "Invalid API key"]
      [] status = 500 /\ srv = "main" ->
             [error |-> "Server configuration error", message |-> ""]
      [] status = 500 /\ srv # "main" ->
             [error |-> "Server Configuration Error",
              message |-> "API_KEY not configured on server"]
      [] OTHER -> [error |-> "", message |-> ""]

\* route dispatch after the gate: the handler that serves the path
RouteMain(path) ==
    CASE MountMatches(<<"/","d","o","c","s">>, path) -> "docs"
      [] MountMatches(<<"/","a","p","i","/","c","o","n","t","e","n","t">>, path) -> "proxy"
      [] MountMatches(<<"/","a","p","i","/","i","n","t","e","g","r","a","t","i","o","n">>, path) -> "proxy"
      [] RouteMatches(<<"/","a","p","i","/","s","t","a","t","s">>, path) -> "stats"
      [] RouteMatches(<<"/","a","p","i","/","l","o","g","s">>, path) -> "logs"
      [] RouteMatches(<<"/","a","p","i","/","f","i","l","e","s">>, path) -> "files"
      [] WildcardMatches(<<"/","a","p","i","/","f","i","l","e","s">>, path) -> "files"
      [] RouteMatches(<<"/","a","p","i","/","e","x","e","c","u","t","e">>, path) -> "execute"
      [] RouteMatches(<<"/","a","p","i","/","p","r","o","j","e","c","t">>, path) -> "project"
      [] RouteMatches(<<"/","m","c","p">>, path) -> "mcp"
      [] OTHER -> "client"

RouteGateway(path) ==
    CASE RouteMatches(<<"/","h","e","a","l","t","h">>, path) -> "health"
      [] RouteMatches(<<"/","a","p","i","/","s","t","a","t","u","s">>, path) -> "status"
      [] MountMatches(<<"/","a","p","i","/","c","o","n","t","e","n","t">>, path) -> "proxy"
      [] MountMatches(<<"/","a","p","i","/","i","n","t","e","g","r","a","t","i","o","n">>, path) -> "proxy"
      [] ToLower(path) = <<"/">> -> "index"
      [] OTHER -> "notfound"

RouteContent(path) ==
    CASE RouteMatches(<<"/","h","e","a","l","t","h">>, path) -> "health"
      [] RouteMatches(<<"/","a","p","i","/","s","t","a","t","u","s">>, path) -> "status"
      [] RouteMatches(<<"/","a","p","i","/","f","i","l","e","s">>, path) -> "files"
      [] WildcardMatches(<<"/","a","p","i","/","f","i","l","e","s">>, path) -> "files"
      [] RouteMatches(<<"/","a","p","i","/","e","x","e","c","u","t","e">>, path) -> "execute"
      [] RouteMatches(<<"/","a","p","i","/","p","r","o","j","e","c","t">>, path) -> "project"
      [] ToLower(path) = <<"/">> -> "index"
      [] OTHER -> "notfound"

RouteIntegration(path) ==
    CASE RouteMatches(<<"/","h","e","a","l","t","h">>, path) -> "health"
      [] RouteMatches(<<"/","a","p","i","/","s","t","a","t","u","s">>, path) -> "status"
      [] ToLower(path) = <<"/">> -> "index"
      [] OTHER -> "notfound"

Route(srv, path) ==
    CASE srv = "main" -> RouteMain(path)
      [] srv = "gateway" -> RouteGateway(path)
      [] srv = "content" -> RouteContent(path)
      [] OTHER -> RouteIntegration(path)

NoResp ==
    [ip |-> "none", path |-> <<>>, header |-> "", query |-> "", status |-> 0,
     body |-> [error |-> "", message |-> ""], limited |-> FALSE,
     authed |-> FALSE, handler |-> "none"]

\* the counter is followed a few hits past the ceiling
HitSlack == 2

HitCap == max + HitSlack

\* one request through the pipeline: limiter (where mounted), then
\* apiKeyAuth, then route dispatch
Request(ip, path, header, query) ==
    LET covered == LimiterCovers(server, path)
        count == IF covered THEN hits[ip] + 1 ELSE hits[ip]
        blocked == covered /\ count > max
        gate == apiKeyAuth(server, apiKeyEnv, path, header, query)
        req == [NoResp EXCEPT !.ip = ip, !.path = path, !.header = header,
                              !.query = query, !.limited = covered]
        \* only the gate of the main server reports a rejected request
        reported == ~blocked /\ server = "main" /\ gate \in {401, 403}
        history == IF reported
                   THEN notifyApiKeyMisuse(config, notificationHistory, ip, path,
                                           IF gate = 401 THEN "missing" ELSE "invalid")
                   ELSE notificationHistory
    IN /\ covered => hits[ip] < HitCap
       /\ Len(history) <= MaxEvents
       /\ hits' = [hits EXCEPT ![ip] = count]
       /\ resp' = IF blocked
                  THEN [req EXCEPT !.status = 429, !.body = TooManyRequests]
                  ELSE IF gate # 0
                  THEN [req EXCEPT !.status = gate, !.authed = TRUE,
                                   !.body = GateBody(server, gate)]
                  ELSE [req EXCEPT !.authed = TRUE, !.handler = Route(server, path)]
       /\ notificationHistory' = history
       /\ UNCHANGED <<server, apiKeyEnv, config, notGateVars>>

\* the 15-minute window of a client ends: its counter starts again
WindowElapsed(ip) ==
    /\ hits[ip] > 0
    /\ hits' = [hits EXCEPT ![ip] = 0]
    /\ resp' = NoResp
    /\ UNCHANGED <<server, apiKeyEnv, notifyVars, notGateVars>>

\* PUT /api/notifications/config of the main server
UpdateNotificationConfig(updates) ==
    /\ server = "main"
    /\ config' = updateNotificationConfig(config, updates)
    /\ UNCHANGED <<gateVars, notificationHistory, notGateVars>>

\* DELETE /api/notifications of the main server
ClearNotificationHistory ==
    /\ server = "main"
    /\ notificationHistory # <<>>
    /\ notificationHistory' = <<>>
    /\ UNCHANGED <<gateVars, config, notGateVars>>

\* the downstream service a proxied path is relayed to
Downstream(path) ==
    IF MountMatches(<<"/","a","p","i","/","c","o","n","t","e","n","t">>, path)
    THEN "content"
    ELSE "integration"

Prefix(downstream) ==
    IF downstream = "content" THEN <<"/","a","p","i","/","c","o","n","t","e","n","t">>
    ELSE <<"/","a","p","i","/","i","n","t","e","g","r","a","t","i","o","n">>

\* pathRewrite: the main server turns a leading prefix into /api, the
\* gateway removes it; the pattern is matched with regard to case
pathRewrite(srv, path) ==
    LET prefix == Prefix(Downstream(path))
        rest == Drop(path, Len(prefix))
        rewritten == IF srv = "main" THEN <<"/","a","p","i">> \o rest ELSE rest
    IN IF ~StartsWith(path, prefix) THEN path
       ELSE IF rewritten = <<>> THEN <<"/">>
       ELSE rewritten

\* whether the gate compared a credential of the request with the
\* configured key and found them equal
Validated(srv, validApiKey, path, header, query) ==
    /\ ~IsPublic(srv, path)
    /\ apiKeyAuth(srv, validApiKey, path, header, query) = 0

\* on.proxyReq: the X-API-KEY header of the request sent downstream. The
\* main server sets it to the client's credential, or to its own key when
\* the client sent none; the gateway sets it to req.validatedApiKey when the
\* gate has set that, and otherwise the client's header goes through
proxyReq(srv, validApiKey, path, header, query) ==
    IF srv = "main"
    THEN IF Credential(header, query) # "" THEN Credential(header, query)
         ELSE validApiKey
    ELSE IF Validated(srv, validApiKey, path, header, query) THEN validApiKey
         ELSE header

\* one request for a proxied path: the pipeline of the proxying server,
\* then, when it lets the request through, the proxy, then the limiter and
\* the gate of the downstream service
Relay(ip, path, header, query) ==
    LET covered == LimiterCovers(server, path)
        count == IF covered THEN hits[ip] + 1 ELSE hits[ip]
        blocked == covered /\ count > max
        gate == apiKeyAuth(server, apiKeyEnv, path, header, query)
        req == [NoResp EXCEPT !.ip = ip, !.path = path, !.header = header,
                              !.query = query, !.limited = covered]
        reported == ~blocked /\ server = "main" /\ gate \in {401, 403}
        history == IF reported
                   THEN notifyApiKeyMisuse(config, notificationHistory, ip, path,
                                           IF gate = 401 THEN "missing" ELSE "invalid")
                   ELSE notificationHistory
        d == Downstream(path)
        key == proxyReq(server, apiKeyEnv, path, header, query)
        seen == relay.hits[d][ProxyAddress] + 1
        answer == apiKeyAuth(d, apiKeyEnv, pathRewrite(server, path), key, query)
    IN /\ server \in ProxyingServers
       /\ Route(server, path) = "proxy"
       /\ covered => hits[ip] < HitCap
       /\ relay.hits[d][ProxyAddress] < HitCap
       /\ Len(history) <= MaxEvents
       /\ hits' = [hits EXCEPT ![ip] = count]
       /\ resp' = IF blocked
                  THEN [req EXCEPT !.status = 429, !.body = TooManyRequests]
                  ELSE IF gate # 0
                  THEN [req EXCEPT !.status = gate, !.authed = TRUE,
                                   !.body = GateBody(server, gate)]
                  ELSE [req EXCEPT !.authed = TRUE, !.handler = "proxy"]
       /\ notificationHistory' = history
       /\ relay' = IF blocked \/ gate # 0
                   THEN [relay EXCEPT !.forwarded = FALSE, !.ip = ip, !.path = path,
                                      !.downstream = d, !.key = "", !.validated = FALSE,
                                      !.status = 0]
                   ELSE [relay EXCEPT !.hits[d][ProxyAddress] = seen,
                                      !.sent[d][ip] = @ + 1,
                                      !.forwarded = TRUE, !.ip = ip, !.path = path,
                                      !.downstream = d, !.key = key,
                                      !.validated = Validated(server, apiKeyEnv, path,
                                                              header, query),
                                      !.status = IF seen > max THEN 429
                                                 ELSE IF answer # 0 THEN answer
                                                 ELSE 200]
       /\ UNCHANGED <<server, apiKeyEnv, config, notRelayVars>>

\* res.statusCode >= 200 && res.statusCode < 400
IsSuccess(status) == status >= 200 /\ status < 400

\* one request to the main server, whose pipeline is the limiter (on /api
\* and /mcp), then requestLogger, then apiKeyAuth, then the routes: a
\* request the limiter answers never reaches requestLogger; for any other
\* one the wrapped res.end adds the record and counts the request
LoggedRequest(ip, path, header, query) ==
    LET covered == LimiterCovers("main", path)
        count == IF covered THEN hits[ip] + 1 ELSE hits[ip]
        blocked == covered /\ count > max
        gate == apiKeyAuth("main", apiKeyEnv, path, header, query)
        req == [NoResp EXCEPT !.ip = ip, !.path = path, !.header = header,
                              !.query = query, !.limited = covered]
        history == IF ~blocked /\ gate \in {401, 403}
                   THEN notifyApiKeyMisuse(config, notificationHistory, ip, path,
                                           IF gate = 401 THEN "missing" ELSE "invalid")
                   ELSE notificationHistory
        status == IF gate # 0 THEN gate ELSE 200
    IN /\ server = "main"
       /\ covered => hits[ip] < HitCap
       /\ Len(history) <= MaxEvents
       /\ hits' = [hits EXCEPT ![ip] = count]
       /\ resp' = IF blocked
                  THEN [req EXCEPT !.status = 429, !.body = TooManyRequests]
                  ELSE IF gate # 0
                  THEN [req EXCEPT !.status = gate, !.authed = TRUE,
                                   !.body = GateBody("main", gate)]
                  ELSE [req EXCEPT !.status = 200, !.authed = TRUE,
                                   !.handler = Route("main", path)]
       /\ notificationHistory' = history
       /\ storage' = IF blocked
                     THEN [storage EXCEPT !.answered = @ + 1, !.got = NoGot]
                     ELSE [storage EXCEPT !.answered = @ + 1, !.got = NoGot,
                                          !.added = @ + 1,
                                          !.logs = addLog(@, LogRecord(status, ip)),
                                          !.stats = incrementRequests(@, IsSuccess(status))]
       /\ UNCHANGED <<server, apiKeyEnv, config, notLogVars>>

\* the 15-minute window of a downstream limiter ends
DownstreamWindowElapsed(d) ==
    /\ relay.hits[d][ProxyAddress] > max
    /\ relay' = [NoRelay EXCEPT !.hits = [relay.hits EXCEPT ![d] = NoRelay.hits[d]],
                                !.sent = [relay.sent EXCEPT ![d] = NoRelay.sent[d]]]
    /\ UNCHANGED <<gateVars, notifyVars, notRelayVars>>

IdleGate ==
    /\ server = "main"
    /\ apiKeyEnv = ""
    /\ hits = [ip \in IPS |-> 0]
    /\ resp = NoResp

KEY == "key"

WRONG == "kez"

\* the gate specification: one client sends requests with every mix of
\* credentials to a server that has, or lacks, a configured key
GatePaths ==
    {<<"/">>,
     <<"/","h","e","a","l","t","h">>,
     <<"/","a","p","i","/","s","t","a","t","s">>,
     <<"/","a","p","i","/","s","t","a","t","u","s">>,
     <<"/","a","p","i","/","f","i","l","e","s","/","a",".","j","s","o","n">>,
     <<"/","A","P","I","/","f","i","l","e","s","/","a",".","j","s","o","n">>,
     <<"/","a","p","i","/","e","x","e","c","u","t","e">>,
     <<"/","m","c","p">>,
     <<"/","a","p","i","/","c","o","n","t","e","n","t","/","x">>,
     <<"/","a","p","i","/","p","r","o","j","e","c","t">>,
     <<"/","d","o","c","s","/","x">>,
     <<"/","p","r","i","v","a","t","e">>,
     <<"/","a","p","p",".","j","s">>}

Creds == {"", KEY, WRONG}

InitGate ==
    /\ server \in Servers
    /\ apiKeyEnv \in {"", KEY}
    /\ hits = [ip \in IPS |-> 0]
    /\ resp = NoResp
    /\ MutedNotify
    /\ IdleMcp
    /\ IdleRest
    /\ IdlePath
    /\ IdleCmd

\* counted requests the client of the gate specification sends in a window
GateBurst == 3

NextGate ==
    \/ /\ hits["ip1"] < GateBurst
       /\ \E path \in GatePaths, header \in Creds, query \in Creds :
              Request("ip1", path, header, query)
    \/ WindowElapsed("ip1")

SpecGate == InitGate /\ [][NextGate]_vars

\* the limiter specification: two clients send requests, with and without
\* a credential, to limited and unlimited paths
LimitPaths == {<<"/","a","p","i","/","e","x","e","c","u","t","e">>, <<"/","p","r","i","v","a","t","e">>, <<"/","h","e","a","l","t","h">>}

InitLimit ==
    /\ server \in Servers
    /\ apiKeyEnv = KEY
    /\ hits = [ip \in IPS |-> 0]
    /\ resp = NoResp
    /\ MutedNotify
    /\ IdleMcp
    /\ IdleRest
    /\ IdlePath
    /\ IdleCmd

\* counted requests the second client sends in a window
OtherBurst == 2

NextLimit ==
    \/ \E path \in LimitPaths, header \in {"", WRONG} :
           Request("ip1", path, header, "")
    \/ /\ hits["ip2"] < OtherBurst
       /\ \E path \in LimitPaths, header \in {"", WRONG} :
              Request("ip2", path, header, "")
    \/ \E ip \in IPS : WindowElapsed(ip)

SpecLimit == InitLimit /\ [][NextLimit]_vars

\* the relay specification: one client sends a window's worth of requests
\* with the key to a proxied path, a second client sends a few requests to
\* proxied paths with and without a credential
RelayPaths ==
    {<<"/","a","p","i","/","c","o","n","t","e","n","t","/","x">>,
     <<"/","A","P","I","/","c","o","n","t","e","n","t","/","x",".","j","s">>,
     <<"/","a","p","i","/","i","n","t","e","g","r","a","t","i","o","n","/","h","e","a","l","t","h">>}

InitRelay ==
    /\ server \in ProxyingServers
    /\ apiKeyEnv = KEY
    /\ hits = [ip \in IPS |-> 0]
    /\ resp = NoResp
    /\ MutedNotify
    /\ IdleMcp
    /\ IdleRest
    /\ IdlePath
    /\ IdleCmd

NextRelay ==
    \/ Relay("ip1", <<"/","a","p","i","/","c","o","n","t","e","n","t","/","x">>, KEY, "")
    \/ /\ hits["ip2"] < OtherBurst
       /\ \E path \in RelayPaths, header \in {"", KEY, WRONG} :
              Relay("ip2", path, header, "")
    \/ \E d \in DownstreamServices : DownstreamWindowElapsed(d)

SpecRelay == InitRelay /\ [][NextRelay]_vars

\* the notification specification: a client is rejected by the gate while
\* an administrator changes the notification configuration and clears the
\* history
NotifyPaths == {<<"/","a","p","i","/","e","x","e","c","u","t","e">>, <<"/","a","p","i","/","s","t","a","t","s">>}

ConfigUpdates ==
    {[NoUpdate EXCEPT !.enabled = <<FALSE>>], [NoUpdate EXCEPT !.enabled = <<TRUE>>],
     [NoUpdate EXCEPT !.minSeverity = <<"error">>],
     [NoUpdate EXCEPT !.minSeverity = <<"warning">>],
     [NoUpdate EXCEPT !.minSeverity = <<"info">>],
     [NoUpdate EXCEPT !.minSeverity = <<"verbose">>],
     [NoUpdate EXCEPT !.console = <<FALSE>>]}

InitNotify ==
    /\ server \in Servers
    /\ apiKeyEnv = KEY
    /\ hits = [ip \in IPS |-> 0]
    /\ resp = NoResp
    /\ IdleNotify
    /\ IdleMcp
    /\ IdleRest
    /\ IdlePath
    /\ IdleCmd

\* counted requests the client of the notification specification sends in
\* a window
NotifyBurst == 2

NextNotify ==
    \/ \E path \in NotifyPaths, header \in Creds :
           /\ hits["ip1"] < NotifyBurst
           /\ Request("ip1", path, header, "")
    \/ WindowElapsed("ip1")
    \/ \E updates \in ConfigUpdates : UpdateNotificationConfig(updates)
    \/ ClearNotificationHistory

SpecNotify == InitNotify /\ [][NextNotify]_vars

(***************************************************************************)
(* The MCP specification: clients open SSE sessions and post JSON-RPC      *)
(* messages while timers fire and connections close.                       *)
(***************************************************************************)
RpcIds == {1, 7}

RpcMethods ==
    {"initialize", "initialized", "tools/list", "ping", "notifications/cancelled",
     "resources/list"}

ToolNames ==
    {MCP_TOOLS_MAIN[k] : k \in 1..Len(MCP_TOOLS_MAIN)}
        \cup {"github_list_repos", "no_such_tool"}

\* the arguments of a tool call, with what the file system or the child
\* process does when the call reaches it
ToolCases ==
    {[arguments |-> [path |-> <<"a">>, command |-> <<"l","s">>], io |-> "ok"],
     [arguments |-> [path |-> <<"a">>, command |-> <<"l","s">>], io |-> "ENOENT"],
     [arguments |-> [path |-> <<"a">>, command |-> <<"l","s">>], io |-> "EACCES"],
     [arguments |-> [path |-> <<".",".","/",".",".","/","/","a">>,
                     command |-> <<"p","i","n","g">>], io |-> "ok"],
     [arguments |-> [path |-> Absent, command |-> Absent], io |-> "ok"]}

\* the bodies POST /mcp is sent: every method without params, in both
\* shapes, and every tool call
RpcCases ==
    {[method |-> m, params |-> NoParams, wellFormed |-> w, io |-> "ok"] :
        m \in RpcMethods \cup {"tools/call"}, w \in BOOLEAN}
    \cup {[method |-> "tools/call", params |-> [name |-> n, arguments |-> c.arguments],
           wellFormed |-> TRUE, io |-> c.io] : n \in ToolNames, c \in ToolCases}

InitMcp ==
    /\ mcpService \in McpServices
    /\ sessions = [s \in SessionIds |-> NewSession]
    /\ rpc = NoRpc
    /\ IdlePath
    /\ IdleCmd
    /\ IdleGate
    /\ IdleNotify
    /\ IdleRest

NextMcp ==
    \/ \E writeOk \in BOOLEAN : GetMcp("s1", writeOk)
    \/ \E writeOk \in BOOLEAN : KeepAliveTick("s1", writeOk)
    \/ ClientClose("s1")
    \/ \E id \in RpcIds, c \in RpcCases :
           PostMcp([id |-> id, method |-> c.method, params |-> c.params], c.wellFormed, c.io)

SpecMcp == InitMcp /\ [][NextMcp]_vars

(***************************************************************************)
(* Specification of the SSE sessions: two clients connect, timers fire,    *)
(* connections close, and messages are processed with and without a        *)
(* session attached, in any interleaving                                   *)
(***************************************************************************)
SseMessages ==
    {[id |-> 7, method |-> "resources/list", params |-> NoParams],
     [id |-> 7, method |-> "tools/call",
      params |-> [name |-> "read_file",
                  arguments |-> [path |-> <<"a">>, command |-> Absent]]]}

InitSse ==
    /\ mcpService \in McpServices
    /\ sessions = [s \in SessionIds |-> NewSession]
    /\ rpc = NoRpc
    /\ IdleRest
    /\ IdlePath
    /\ IdleCmd
    /\ IdleGate
    /\ IdleNotify

NextSse ==
    \/ \E s \in SessionIds, writeOk \in BOOLEAN : GetMcp(s, writeOk)
    \/ \E s \in SessionIds, writeOk \in BOOLEAN : KeepAliveTick(s, writeOk)
    \/ \E s \in SessionIds : ClientClose(s)
    \/ \E attached \in SessionIds \cup {NoSession}, message \in SseMessages :
           BeginCall(attached, message, "ENOENT")
    \/ \E writeOk \in BOOLEAN : CompleteCall(writeOk)

SpecSse == InitSse /\ [][NextSse]_vars

(***************************************************************************)
(* Specification of the proxies: requests reach a proxy of the main server *)
(* or of the gateway while the services go up and down and the             *)
(* notification configuration is changed                                   *)
(***************************************************************************)
FailureDetails == {"connect ECONNREFUSED", "socket hang up"}

ProxyConfigUpdates ==
    {[NoUpdate EXCEPT !.enabled = <<FALSE>>], [NoUpdate EXCEPT !.enabled = <<TRUE>>],
     [NoUpdate EXCEPT !.minSeverity = <<"critical">>]}

InitProxy ==
    /\ server \in ProxyingServers
    /\ apiKeyEnv = KEY
    /\ hits = [ip \in IPS |-> 0]
    /\ resp = NoResp
    /\ IdleNotify
    /\ IdleRest
    /\ IdleMcp
    /\ IdlePath
    /\ IdleCmd

NextProxy ==
    \/ \E prefix \in ProxyPrefixes, detail \in FailureDetails :
           ProxyRequest(prefix, "down", detail)
    \/ \E prefix \in ProxyPrefixes : ProxyRequest(prefix, "up", "")
    \/ \E updates \in ProxyConfigUpdates : UpdateNotificationConfig(updates)
    \/ ClearNotificationHistory

SpecProxy == InitProxy /\ [][NextProxy]_vars

(***************************************************************************)
(* Specification of FileStore on a file system: clients write, read and    *)
(* delete a few paths in any order                                         *)
(***************************************************************************)
DiskPaths == {<<"f">>, <<"a","/","b","/","c">>, <<"a">>}

Contents == {"c1", "c2"}

IoFaults == {"ok", "EACCES"}

InitDisk ==
    /\ IdleRest
    /\ IdlePath
    /\ IdleCmd
    /\ IdleGate
    /\ IdleNotify
    /\ IdleMcp

NextDisk ==
    \/ \E filePath \in DiskPaths, io \in IoFaults : ReadRequest(filePath, io)
    \/ \E filePath \in DiskPaths, content \in Contents :
           WriteRequest(filePath, content, "ok")
    \/ WriteRequest(<<"f">>, "c1", "EACCES")
    \/ \E filePath \in DiskPaths, io \in IoFaults : DeleteRequest(filePath, io)

SpecDisk == InitDisk /\ [][NextDisk]_vars

(***************************************************************************)
(* Specification of project structures: files are written under the        *)
(* project root and the structure is asked for, to several depths, while   *)
(* some entries cannot be read                                             *)
(***************************************************************************)
TreePaths == {<<"f">>, <<"a","/","a">>, <<"a","/","b","/","d","/","e">>}

DepthArgs == {-1, 0, 1, 2, 3}

Abs(rel) == PROJECT_ROOT \o <<"/">> \o rel

TreeFaults ==
    {NoFaults,
     [stat |-> {Abs(<<"a","/","a">>)}, readdir |-> {}],
     [stat |-> {}, readdir |-> {Abs(<<"a","/","b">>)}]}

\* the project root holds a hidden file and a node_modules directory
SeededDisk ==
    fsWriteFile(
        fsWriteFile(mkdir(EmptyDisk, Abs(NODE_MODULES)),
                    Abs(NODE_MODULES \o <<"/","m">>), "c1"),
        Abs(<<".","h">>), "c1")

InitTree ==
    /\ disk = SeededDisk
    /\ fileOp = NoFileOp
    /\ IdleRun
    /\ IdleProxy
    /\ IdleSse
    /\ IdleTail
    /\ IdlePath
    /\ IdleCmd
    /\ IdleGate
    /\ IdleNotify
    /\ IdleMcp

NextTree ==
    \/ \E filePath \in TreePaths : WriteRequest(filePath, "c1", "ok")
    \/ \E depth \in DepthArgs, faults \in TreeFaults :
           ProjectRequest(<<".">>, depth, faults)

SpecTree == InitTree /\ [][NextTree]_vars

(***************************************************************************)
(* Specification of the log store: records are added past the ceiling, the *)
(* store is read and cleared, requests are counted                         *)
(***************************************************************************)
LogLimits == {-1, 0, 2}

InitLog ==
    /\ IdleRest
    /\ IdlePath
    /\ IdleCmd
    /\ IdleGate
    /\ IdleNotify
    /\ IdleMcp

NextLog ==
    \/ AddLog(200, "ip1")
    \/ \E limit \in LogLimits : GetLogs(limit)
    \/ ClearLogs
    \/ \E success \in BOOLEAN : IncrementRequests(success)

SpecLog == InitLog /\ [][NextLog]_vars

(***************************************************************************)
(* Specification of logged requests: one client sends a window's worth of  *)
(* requests with the key to the main server, a second one a few requests   *)
(* with and without it                                                     *)
(***************************************************************************)
InitLogged ==
    /\ server = "main"
    /\ apiKeyEnv = KEY
    /\ hits = [ip \in IPS |-> 0]
    /\ resp = NoResp
    /\ MutedNotify
    /\ IdleMcp
    /\ IdleRest
    /\ IdlePath
    /\ IdleCmd

\* requests the second client sends in a window
LoggedOthers == 1

NextLogged ==
    \/ LoggedRequest("ip1", <<"/","a","p","i","/","e","x","e","c","u","t","e">>, KEY, "")
    \/ /\ hits["ip2"] < LoggedOthers
       /\ \E header \in {"", KEY} :
              LoggedRequest("ip2", <<"/","a","p","i","/","e","x","e","c","u","t","e">>,
                            header, "")

SpecLogged == InitLogged /\ [][NextLogged]_vars

(***************************************************************************)
(* Specification of command executions                                     *)
(***************************************************************************)
TimeoutArgs == {Undefined, 0, 500, 1000, 10000, 30000, 60000}

ExitCodes == {0, 2, 124}

RunCommands == {<<>>, <<"l","s">>, <<"p","i","n","g">>}

InitRun ==
    /\ IdleRest
    /\ IdlePath
    /\ IdleCmd
    /\ IdleGate
    /\ IdleNotify
    /\ IdleMcp

NextRun ==
    \/ \E entry \in EntryPaths, command \in RunCommands, timeoutArg \in TimeoutArgs :
           Execute(entry, command, timeoutArg)
    \/ \E stream \in {"stdout", "stderr"} : ChildWrites(stream)
    \/ Tick
    \/ \E code \in ExitCodes : ChildExits(code)
    \/ TimerFires
    \/ \E signal \in {"SIGTERM", "SIGKILL"} : ChildKilled(signal)

SpecRun == InitRun /\ [][NextRun]_vars

(***************************************************************************)
(* The path specification: a client composes a path string token by token  *)
(* and hands it to the sanitizer and to the five file operations.          *)
(***************************************************************************)
MaxTokens == 5

PathTokens == {<<"/">>, <<".">>, <<".", ".">>, <<"a">>, <<NUL>>}

PathEtcPasswd == <<".",".","/",".",".","/","e","t","c","/","p","a","s","s","w","d">>

PathABackB == <<"a","/",".",".","/",".",".","/","b">>

PathOfLength(n) == [i \in 1..n |-> "a"]

\* paths a client may also send as a whole
WholePaths ==
    {PathEtcPasswd, PathABackB,
     PathOfLength(MAX_PATH_LENGTH), PathOfLength(MAX_PATH_LENGTH + 1)}

InitPath ==
    /\ input \in {<<>>} \cup WholePaths
    /\ typed = (IF input = <<>> THEN 0 ELSE MaxTokens)
    /\ call = NoCall
    /\ IdleCmd
    /\ IdleGate
    /\ IdleNotify
    /\ IdleMcp
    /\ IdleRest

Type(tok) ==
    /\ typed < MaxTokens
    /\ input' = input \o tok
    /\ typed' = typed + 1
    /\ call' = NoCall
    /\ UNCHANGED notPathVars

Sanitize ==
    /\ call' = [NoCall EXCEPT !.op = "sanitizePath", !.arg = input,
                              !.outcome = "value", !.sanitized = sanitizePath(input)]
    /\ UNCHANGED <<input, typed, notPathVars>>

\* the sanitizer applied to its own result
SanitizeAgain ==
    /\ call.op = "sanitizePath"
    /\ call' = [NoCall EXCEPT !.op = "sanitizePath", !.arg = call.sanitized,
                              !.outcome = "again",
                              !.sanitized = sanitizePath(call.sanitized)]
    /\ UNCHANGED <<input, typed, notPathVars>>

ReadFile == call' = readFile(input) /\ UNCHANGED <<input, typed, notPathVars>>

WriteFile == call' = writeFile(input) /\ UNCHANGED <<input, typed, notPathVars>>

DeleteFile == call' = deleteFile(input) /\ UNCHANGED <<input, typed, notPathVars>>

\* handleToolCall and the content route pass `path || "."`
ListFiles == call' = listFiles(OrDot(input)) /\ UNCHANGED <<input, typed, notPathVars>>

GetProjectStructure == call' = getProjectStructure(OrDot(input)) /\ UNCHANGED <<input, typed, notPathVars>>

NextPath ==
    \/ \E tok \in PathTokens : Type(tok)
    \/ Sanitize
    \/ SanitizeAgain
    \/ ReadFile
    \/ WriteFile
    \/ DeleteFile
    \/ ListFiles
    \/ GetProjectStructure

SpecPath == InitPath /\ [][NextPath]_vars

(***************************************************************************)
(* The command specification: a client composes a command line token by    *)
(* token and sends it through the validator and the three entry paths of   *)
(* the runner.                                                             *)
(***************************************************************************)
MaxCmdTokens == 3

CmdTokens ==
    {<<"l","s">>, <<"r","m">>, <<"p","i","n","g">>, <<" ">>, <<";">>,
     <<"/","e","t","c","/">>}

\* command lines a client may also send as a whole
WholeCommands ==
    {<<"l","s",";"," ","r","m"," ","-","r","f"," ","/">>,
     <<"p","i","n","g"," ","e","x","a","m","p","l","e",".","c","o","m">>,
     <<"r","m"," ","-","r","f"," ","/">>,
     <<"s","u","d","o"," ","l","s">>,
     <<"c","h","m","o","d"," ","7","7","7"," ","a">>,
     <<"c","a","t"," ","/","p","r","o","c","/","x">>,
     <<"c","a","t"," ","/","s","y","s","/","x">>,
     <<"c","u","r","l"," ","x"," ","|"," ","s","h">>,
     <<"w","g","e","t"," ","x"," ","|"," ","s","h">>,
     <<"e","c","h","o"," ","$","x">>,
     <<"e","c","h","o"," ",BACKTICK,"x",BACKTICK>>,
     <<"l","s"," ","(","x",")">>,
     <<"l","s"," ","&"," ","l","s">>,
     <<"l","s","\n","p","i","n","g">>,
     <<"\t","l","s"," ","-","l">>}

InitCmd ==
    /\ cmdline \in {<<>>} \cup WholeCommands
    /\ cmdTyped = (IF cmdline = <<>> THEN 0 ELSE MaxCmdTokens)
    /\ run = NoRun
    /\ IdlePath
    /\ IdleGate
    /\ IdleNotify
    /\ IdleMcp
    /\ IdleRest

TypeCmd(tok) ==
    /\ cmdTyped < MaxCmdTokens
    /\ cmdline' = cmdline \o tok
    /\ cmdTyped' = cmdTyped + 1
    /\ run' = NoRun
    /\ UNCHANGED notCmdVars

\* CommandValidator.check on the line
Check ==
    /\ run' = [NoRun EXCEPT !.entry = "isCommandSafe", !.command = cmdline,
                            !.verdict = isCommandSafe(cmdline)]
    /\ UNCHANGED <<cmdline, cmdTyped, notCmdVars>>

ExecuteMain ==
    run' = PostExecuteMain(cmdline) /\ UNCHANGED <<cmdline, cmdTyped, notCmdVars>>

ExecuteContent ==
    run' = PostExecuteContent(cmdline) /\ UNCHANGED <<cmdline, cmdTyped, notCmdVars>>

ExecuteMcp ==
    run' = McpExecuteCommand(cmdline) /\ UNCHANGED <<cmdline, cmdTyped, notCmdVars>>

NextCmd ==
    \/ \E tok \in CmdTokens : TypeCmd(tok)
    \/ Check
    \/ ExecuteMain
    \/ ExecuteContent
    \/ ExecuteMcp

SpecCmd == InitCmd /\ [][NextCmd]_vars

(***************************************************************************)
(* Claims about the PathSanitizer and the FileStore, under SpecPath        *)
(***************************************************************************)
DropTrailingSeparator(p) ==
    IF Len(p) > 1 /\ p[Len(p)] = "/" THEN SubSeq(p, 1, Len(p) - 1) ELSE p

\* C1: a file operation that is not rejected hands the filesystem a path
\* that is the project root or lies below it, and that path is the one the
\* boundary check approved.
C1_FileOpsStayInRoot ==
    (call.op \in FileOps /\ call.outcome = "fs") =>
        /\ WithinBase(DropTrailingSeparator(call.fullPath), PROJECT_ROOT)
        /\ DropTrailingSeparator(call.fullPath) = call.approved

\* C6: sanitizePath returns a string without NUL, without a leading "/" and
\* without a leading "../" or ".." segment, which resolves to the root or
\* below it; "../../etc/passwd" gives "etc/passwd" and "a/../../b" gives "b".
C6_SanitizedPathShape ==
    (call.op = "sanitizePath") =>
        /\ \A i \in 1..Len(call.sanitized) : call.sanitized[i] # NUL
        /\ ~StartsWith(call.sanitized, <<"/">>)
        /\ ~StartsWith(call.sanitized, <<".", ".", "/">>)
        /\ call.sanitized # DotDot
        /\ WithinBase(resolve(PROJECT_ROOT, call.sanitized), PROJECT_ROOT)
        /\ (call.arg = PathEtcPasswd =>
                call.sanitized = <<"e","t","c","/","p","a","s","s","w","d">>)
        /\ (call.arg = PathABackB => call.sanitized = <<"b">>)

\* C7: sanitizePath applied to a sanitized path returns it unchanged.
C7_SanitizeIdempotent ==
    (call.op = "sanitizePath" /\ call.outcome = "again") => call.sanitized = call.arg

HasNul(s) == \E i \in 1..Len(s) : s[i] = NUL

\* C8: each of the five operations rejects an empty path, a path longer than
\* 500 characters and a path with a NUL byte without touching the
\* filesystem, and none rejects a path of exactly 500 characters as too long.
C8_InvalidPathsRejected ==
    (call.op \in FileOps) =>
        /\ (call.arg = <<>> \/ Len(call.arg) > MAX_PATH_LENGTH \/ HasNul(call.arg))
              => (call.outcome = "error" /\ call.fullPath = NoPath)
        /\ (Len(call.arg) = MAX_PATH_LENGTH) => call.error # "File path too long"

(***************************************************************************)
(* Claims about the CommandValidator and the CommandRunner                 *)
(***************************************************************************)
\* C4: the CommandRunner never starts a child process for a command line the
\* CommandValidator judges unsafe; the call fails with the error
\* `Command rejected: <reason>`, on each of the three entry paths.
C4_UnsafeCommandNeverRuns ==
    (run.runner /\ ~isCommandSafe(run.command).safe) =>
        /\ run.child = NoProc
        /\ run.message = <<"Command rejected", isCommandSafe(run.command).reason>>

C4_Witness ==
    /\ run.entry = "tools/call execute_command"
    /\ run.command = <<"p","i","n","g">>
    /\ run.isError
    /\ run.child = NoProc

\* what the claim's words say, spelled out on the characters
At(s, i, p) == i >= 1 /\ i + Len(p) - 1 <= Len(s) /\ SubSeq(s, i, i + Len(p) - 1) = p

WsRun(s, i, j) == i <= j /\ \A k \in i..j : s[k] \in Whitespace

ShellMeta == {";", "&", "|", BACKTICK, "$", "(", ")"}

HasShellMeta(s) == \E i \in 1..Len(s) : s[i] \in ShellMeta

Piped(s, tool) ==
    \E i \in 1..Len(s), j \in 1..Len(s), k \in 1..Len(s) :
        /\ At(s, i, tool) /\ i + Len(tool) <= j /\ s[j] = "|" /\ j < k
        /\ At(s, k, <<"s","h">>)
        /\ \A m \in i..k : s[m] # "\n"

MatchesDeny(s) ==
    \/ HasShellMeta(s)
    \/ \E i \in 1..Len(s) : At(s, i, <<"/","e","t","c","/">>)
    \/ \E i \in 1..Len(s) : At(s, i, <<"/","p","r","o","c","/">>)
    \/ \E i \in 1..Len(s) : At(s, i, <<"/","s","y","s","/">>)
    \/ \E i \in 1..Len(s), j \in 1..Len(s), k \in 1..Len(s) :
           /\ At(s, i, <<"r","m">>) /\ WsRun(s, i + 2, j - 1)
           /\ At(s, j, <<"-","r","f">>) /\ WsRun(s, j + 3, k - 1)
           /\ s[k] = "/"
    \/ \E i \in 1..Len(s) : At(s, i, <<"s","u","d","o">>)
    \/ \E i \in 1..Len(s), j \in 1..Len(s) :
           /\ At(s, i, <<"c","h","m","o","d">>) /\ WsRun(s, i + 5, j - 1)
           /\ At(s, j, <<"7","7","7">>)
    \/ Piped(s, <<"c","u","r","l">>)
    \/ Piped(s, <<"w","g","e","t">>)

\* the first whitespace-delimited token: the longest run of non-whitespace
\* characters that starts at the first non-whitespace character
FirstToken(s) ==
    LET solid == {i \in 1..Len(s) : s[i] \notin Whitespace}
    IN IF solid = {} THEN <<>>
       ELSE LET from == CHOOSE i \in solid : \A j \in solid : i <= j
                ends == {e \in from..Len(s) :
                            /\ \A m \in from..e : s[m] \notin Whitespace
                            /\ (e = Len(s) \/ s[e + 1] \in Whitespace)}
            IN SubSeq(s, from, CHOOSE e \in ends : TRUE)

AllowList == {SAFE_COMMANDS[k] : k \in 1..Len(SAFE_COMMANDS)}

\* C5: CommandValidator.check answers safe exactly when no deny pattern
\* matches the line and its first whitespace-delimited token is on the
\* allow-list; a line holding one of ; & | ` $ ( ) is unsafe.
C5_CheckVerdict ==
    (run.entry = "isCommandSafe") =>
        /\ run.verdict.safe <=>
               (~MatchesDeny(run.command) /\ FirstToken(run.command) \in AllowList)
        /\ HasShellMeta(run.command) => ~run.verdict.safe
        /\ FirstToken(run.command) \notin AllowList => ~run.verdict.safe

C5_Witness ==
    /\ run.entry = "isCommandSafe"
    /\ run.command = <<"p","i","n","g"," ","l","s">>
    /\ ~run.verdict.safe

(***************************************************************************)
(* Claims about the AuthGate and the RateLimiter                           *)
(***************************************************************************)
ProtectedHandlers == {"files", "execute", "project", "mcp", "proxy"}

\* C2: with a server key configured, a handler behind a non-public route
\* (file operations, command execution, MCP, proxy forwarding) serves only
\* requests whose credential, from the X-API-KEY header or the api_key query
\* parameter, equals the configured key.
C2_OnlyKeyHoldersServed ==
    (apiKeyEnv # "" /\ resp.handler \in ProtectedHandlers) =>
        (IF resp.header # "" THEN resp.header ELSE resp.query) = apiKeyEnv

\* C3: on each of the four servers a request the limiter lets through is
\* judged by the gate; a public path passes whatever the configuration, and
\* any other path is answered 500 when no key is configured, else 401 when
\* the request carries no credential, else 403 when the credential differs
\* from the key, and passes otherwise.
C3_GatePrecedence ==
    (resp.ip # "none" /\ resp.status # 429) =>
        LET cred == IF resp.header # "" THEN resp.header ELSE resp.query
            passed == resp.status = 0 /\ resp.handler # "none"
        IN /\ resp.authed
           /\ IF IsPublic(server, resp.path) THEN passed
              ELSE IF apiKeyEnv = "" THEN resp.status = 500 /\ resp.handler = "none"
              ELSE IF cred = "" THEN resp.status = 401 /\ resp.handler = "none"
              ELSE IF cred # apiKeyEnv THEN resp.status = 403 /\ resp.handler = "none"
              ELSE passed

C3_Witness ==
    /\ server = "gateway"
    /\ apiKeyEnv = ""
    /\ resp.path = <<"/","a","p","i","/","c","o","n","t","e","n","t","/","x">>
    /\ resp.header = KEY
    /\ resp.status = 500

\* C9: a client that has passed the ceiling of 100 requests in its window is
\* answered 429 with the body {error: Too many requests, message: Please try
\* again later} and reaches neither the gate nor a handler; a client at or
\* below the ceiling, or whose window has started again, is admitted.
C9_CeilingPerClient ==
    (resp.ip # "none") =>
        /\ hits[resp.ip] > max => resp.status = 429
        /\ hits[resp.ip] <= max => resp.status # 429
        /\ resp.status = 429 =>
               (resp.body = TooManyRequests /\ ~resp.authed /\ resp.handler = "none")

\* C10: every request the gate judges on a protected path went through the
\* limiter first, and a client past the ceiling gets 429 rather than 401 or
\* 403 for its credential attempts.
C10_LimiterBeforeGate ==
    (resp.ip # "none") =>
        /\ (resp.authed /\ ~IsPublic(server, resp.path)) => resp.limited
        /\ hits[resp.ip] > max => resp.status \notin {401, 403}

(***************************************************************************)
(* Claims about the notifications of the gate                              *)
(***************************************************************************)
\* the request just answered was rejected by the gate, and the newest event
\* of the history is the one event it added
RejectionReported ==
    /\ Len(notificationHistory') = Len(notificationHistory) + 1
    /\ Head(notificationHistory').type = "api_key_misuse"
    /\ Head(notificationHistory').metadata =
           [ip |-> resp'.ip, path |-> resp'.path,
            reason |-> IF resp'.status = 401 THEN "missing" ELSE "invalid"]

DispatchTable(svc) ==
    {"initialize", "initialized", "tools/list", "tools/call", "ping"}
    \cup (IF svc = "main" THEN {"notifications/cancelled"} ELSE {})

NamedToolCall == rpc.dispatched /\ rpc.message.method = "tools/call" /\ rpc.message.params.name # ""

\* the tool backend of the main server raised on the call just dispatched
BackendRaised ==
    handleToolCall(rpc.message.params.name, rpc.message.params.arguments, rpc.io).thrown

\* C13: a tools/call with a name is always answered by a result without an
\* error member and nothing is thrown; when the backend of the main server
\* raised, the result carries isError and a text that starts with Error and
\* continues with the exception's message, and otherwise isError is not set.
C13_BackendErrorsAreResults ==
    NamedToolCall =>
        /\ ~rpc.thrown
        /\ rpc.response.error = NoError
        /\ rpc.response.result.kind = "content"
        /\ mcpService = "main" =>
               IF BackendRaised
               THEN /\ rpc.response.result.isError
                    /\ Head(rpc.response.result.text) = "Error"
                    /\ Len(rpc.response.result.text) > 1
               ELSE ~rpc.response.result.isError
        /\ mcpService # "main" => ~rpc.response.result.isError

C13_Witness ==
    /\ mcpService = "main"
    /\ NamedToolCall
    /\ rpc.message.params.name = "read_file"
    /\ rpc.io = "ENOENT"
    /\ rpc.response = createResponse(rpc.message.id,
                           [NoResult EXCEPT !.kind = "content",
                                            !.text = <<"Error", "File not found">>,
                                            !.isError = TRUE])

Names(registry) == {registry[i] : i \in 1..Len(registry)}

\* C14: every answer to tools/list is the whole registry of the service that
\* answers, in registry order, whatever was requested before; the two
\* registries share no tool, so no service lists a tool of the other.
C14_ToolsListIsRegistry ==
    /\ Names(MCP_TOOLS_MAIN) \cap Names(MCP_TOOLS_INTEGRATION) = {}
    /\ (rpc.dispatched /\ rpc.message.method = "tools/list") =>
           /\ rpc.response.error = NoError
           /\ rpc.response.result.kind = "tools"
           /\ rpc.response.result.tools =
                  IF mcpService = "main" THEN MCP_TOOLS_MAIN ELSE MCP_TOOLS_INTEGRATION

C14_Witness ==
    /\ mcpService = "integration"
    /\ rpc.dispatched
    /\ rpc.message.method = "tools/list"
    /\ rpc.response.result.tools = MCP_TOOLS_INTEGRATION
    /\ Len(MCP_TOOLS_INTEGRATION) = 8
    /\ sessions["s1"].created

(***************************************************************************)
(* Claims about command executions                                         *)
(***************************************************************************)
\* C15: on every entry path, a child is started under a timeout between
\* 1000 and 30000 ms, and under 10000 ms when the request names none.
C15_TimeoutWithinBounds ==
    exec.phase \in {"running", "done"} =>
        /\ exec.timeout >= MIN_TIMEOUT
        /\ exec.timeout <= MAX_TIMEOUT
        /\ exec.timeoutArg = Undefined => exec.timeout = DEFAULT_TIMEOUT

\* C16: a finished execution reports timedOut with exit code 124 exactly
\* when its child died of the SIGTERM of the expired timer, and then with
\* the output captured so far; a child that ended by itself with a non-zero
\* status is answered with that status, timedOut false, and nothing raised.
C16_TimedOutIffKilledByTimer ==
    exec.phase = "done" =>
        /\ (exec.result.timedOut /\ exec.result.exitCode = 124) <=>
               (exec.timerFired /\ exec.ending.signal = "SIGTERM")
        /\ exec.result.timedOut => exec.result.exitCode = 124
        /\ exec.result.timedOut =>
               /\ exec.result.stdout = exec.stdout
               /\ exec.stderr # <<>> => exec.result.stderr = exec.stderr
        /\ (exec.ending.signal = "" /\ exec.ending.code # 0) =>
               /\ exec.result.exitCode = exec.ending.code
               /\ ~exec.result.timedOut
               /\ ~exec.raised
               /\ exec.status = 200

C16_Witness ==
    /\ exec.phase = "done"
    /\ exec.entry = "main POST /api/execute"
    /\ exec.timeout = 1000
    /\ exec.timerFired
    /\ exec.ending = Ending(TRUE, "SIGTERM", 0)
    /\ exec.result = [stdout |-> <<"out">>, stderr |-> <<"Command timed out">>,
                      exitCode |-> 124, timedOut |-> TRUE]

(***************************************************************************)
(* Claims about the SSE stream                                             *)
(***************************************************************************)
\* C17: the first frame of every stream is the message event with the
\* server/initialized notification, and every JSON-RPC response the server
\* produces is appended, as one message event, to the stream of every
\* session that is open at that moment.
C17_StreamCarriesResponses ==
    /\ [](\A s \in SessionIds :
             sessions[s].stream # <<>> => Head(sessions[s].stream) = InitializedFrame)
    /\ [][(rpc' # rpc /\ rpc'.dispatched) =>
             \A s \in SessionIds :
                 sessions[s].isConnected =>
                     sessions'[s].stream =
                         Append(sessions[s].stream, MessageFrame(rpc'.response))]_vars

(***************************************************************************)
(* Claims about the proxies                                                *)
(***************************************************************************)
\* the request just answered failed upstream and was answered 503 with an
\* error and a message that carries the failure detail
AnsweredUnavailable ==
    /\ proxy'.status = 503
    /\ proxy'.body.error = UnavailableError(proxy'.prefix)
    /\ proxy'.body.message = proxy'.detail
    /\ proxy'.body.message # ""

\* the newest event of the history is the one event the failure added, and
\* it names the service and the failure detail
UnavailableReported ==
    /\ Len(notificationHistory') = Len(notificationHistory) + 1
    /\ Head(notificationHistory').type = "mcp_unavailable"
    /\ Head(notificationHistory').severity = "critical"
    /\ Head(notificationHistory').metadata =
           [mcpName |-> McpName(proxy'.prefix), error |-> proxy'.detail]

FullPath(filePath) == join(PROJECT_ROOT, sanitizePath(filePath))

SamePathAsBefore(before) ==
    /\ fileOp.prev.op = before
    /\ fileOp.prev.outcome = "returned"
    /\ fileOp.prev.path = fileOp.path
    /\ fileOp.io = "ok"

\* C20: a write that meets no I/O fault fails only where a file or a
\* directory is in its way, never for a missing directory, and when it
\* returns the file holds the content and every directory above it exists;
\* a read that follows a write of the same path returns the content written;
\* a read or a delete that follows a delete of the same path raises File not
\* found; and no other I/O error is reported as File not found.
C20_WriteReadDelete ==
    /\ (fileOp.op = "write" /\ fileOp.io = "ok") =>
           IF fileOp.outcome = "returned"
           THEN /\ IsFile(disk, FullPath(fileOp.path))
                /\ ContentOf(disk, FullPath(fileOp.path)) = fileOp.content
                /\ ProperAncestors(FullPath(fileOp.path)) \subseteq disk.dirs
           ELSE fileOp.error \in {"ENOTDIR", "EEXIST", "EISDIR"}
    /\ (fileOp.op = "read" /\ SamePathAsBefore("write")) =>
           /\ fileOp.outcome = "returned"
           /\ fileOp.content = fileOp.prev.content
    /\ (fileOp.op \in {"read", "delete"} /\ SamePathAsBefore("delete")) =>
           /\ fileOp.outcome = "raised"
           /\ fileOp.error = "File not found"
    /\ (fileOp.outcome = "raised" /\ fileOp.error = "File not found") =>
           /\ fileOp.io = "ok"
           /\ stat(disk, FullPath(fileOp.path)) = "ENOENT"
    /\ (fileOp.outcome = "raised" /\ fileOp.io # "ok") => fileOp.error = fileOp.io

C20_Witness ==
    /\ fileOp.op = "delete"
    /\ fileOp.path = <<"a","/","b","/","c">>
    /\ fileOp.outcome = "raised"
    /\ fileOp.error = "File not found"
    /\ SamePathAsBefore("delete")
    /\ FullPath(<<"a","/","b">>) \in disk.dirs

(***************************************************************************)
(* Claims about the life of an SSE session                                 *)
(***************************************************************************)
Closed(session) == session.created /\ ~session.isConnected

\* C21: the timer of a session is armed exactly while the session is
\* connected, and a session that is closed never changes again: no frame is
\* written to it by a send or a timer tick, and a further disconnect leaves
\* it as it is.
C21_ClosedStaysClosed ==
    /\ [](\A s \in SessionIds :
             /\ sessions[s].keepAliveInterval <=> sessions[s].isConnected
             /\ sessions[s].isConnected => sessions[s].created)
    /\ [][\A s \in SessionIds : Closed(sessions[s]) => sessions'[s] = sessions[s]]_vars

C21_Witness ==
    /\ Closed(sessions["s1"])
    /\ sessions["s1"].stream = <<InitializedFrame, PingFrame>>
    /\ ~sessions["s1"].keepAliveInterval
    /\ rpc.dispatched
    /\ sessions["s2"].isConnected

\* C22: a timer tick on an open session appends one ping to its stream, or,
\* when the write fails, closes the session and stops its timer; a tick or a
\* close of one session leaves every other session, its timer included, as
\* it is; and no timer stays armed on a session that is not connected.
C22_PingEveryTick ==
    /\ [](\A s \in SessionIds : ~sessions[s].isConnected => ~sessions[s].keepAliveInterval)
    /\ [][\A s \in SessionIds :
             /\ \A writeOk \in BOOLEAN :
                    KeepAliveTick(s, writeOk) =>
                        /\ sessions[s].isConnected
                        /\ IF writeOk
                           THEN sessions'[s] =
                                    [sessions[s] EXCEPT !.stream = Append(@, PingFrame)]
                           ELSE /\ Closed(sessions'[s])
                                /\ ~sessions'[s].keepAliveInterval
                                /\ sessions'[s].stream = sessions[s].stream
             /\ (sessions[s].keepAliveInterval /\ ~sessions'[s].keepAliveInterval) =>
                    \A t \in SessionIds \ {s} : sessions'[t] = sessions[t]]_vars

C22_Witness ==
    /\ sessions["s1"].isConnected
    /\ sessions["s1"].keepAliveInterval
    /\ sessions["s1"].stream = <<InitializedFrame, PingFrame>>
    /\ Closed(sessions["s2"])
    /\ sessions["s2"].stream = <<InitializedFrame>>

\* C23: when a message has been processed, the response carries the id of
\* the message and is returned; with an active session attached it is also
\* appended to that session's stream as one message event (or the session
\* is closed when that write fails) and no other session changes; with no
\* session attached, or a closed one, no session changes.
C23_AttachedSessionGetsResponse ==
    [][\A writeOk \in BOOLEAN :
          CompleteCall(writeOk) =>
              /\ rpc'.dispatched
              /\ rpc'.response.id = inflight.message.id
              /\ IF inflight.attached # NoSession /\ sessions[inflight.attached].isConnected
                 THEN sessions' =
                          [sessions EXCEPT ![inflight.attached] =
                              IF writeOk
                              THEN [@ EXCEPT !.stream = Append(@, MessageFrame(rpc'.response))]
                              ELSE [@ EXCEPT !.isConnected = FALSE,
                                             !.keepAliveInterval = FALSE]]
                 ELSE sessions' = sessions]_vars

C23_Witness ==
    /\ rpc.dispatched
    /\ rpc.response.error.code = -32601
    /\ sessions["s1"].stream = <<InitializedFrame, MessageFrame(rpc.response)>>
    /\ sessions["s2"].stream = <<InitializedFrame>>
    /\ ~inflight.pending

\* C24: a close of the client connection closes the session and stops its
\* timer in that step and leaves the message being processed as it is; a
\* message whose session was closed while it was processed still completes
\* with its response returned, and nothing is written to the closed stream.
C24_CloseDoesNotCancel ==
    [][/\ \A s \in SessionIds :
              (ClientClose(s) /\ inflight.pending) =>
                  /\ Closed(sessions'[s])
                  /\ ~sessions'[s].keepAliveInterval
                  /\ inflight' = inflight
                  /\ rpc' = rpc
       /\ \A writeOk \in BOOLEAN :
              (CompleteCall(writeOk) /\ inflight.attached # NoSession
                   /\ Closed(sessions[inflight.attached])) =>
                  /\ rpc'.dispatched
                  /\ rpc'.message = inflight.message
                  /\ rpc'.response.id = inflight.message.id
                  /\ rpc'.response.error.code \in {0, -32601}
                  /\ sessions' = sessions]_vars

\* a tool call is being processed for a session that was closed meanwhile
C24_Witness ==
    /\ inflight.pending
    /\ inflight.attached = "s1"
    /\ inflight.message.method = "tools/call"
    /\ Closed(sessions["s1"])
    /\ sessions["s1"].stream = <<InitializedFrame>>

(***************************************************************************)
(* Claims about the two variants of the dispatch                           *)
(***************************************************************************)
SharedMethods ==
    {"initialize", "initialized", "tools/list", "tools/call", "ping",
     "notifications/cancelled"}

Shape(response) == [code |-> response.error.code, kind |-> response.result.kind]

InRegistry(svc, name) == \E k \in 1..Len(MCP_TOOLS(svc)) : MCP_TOOLS(svc)[k] = name

\* C25: a message of the dispatch table other than a named tool call is
\* answered by either variant with the shape the other variant gives it, and
\* a call of a tool that is not in the variant's registry is answered with a
\* result flagged isError.
C25_SameDispatchTable ==
    rpc.dispatched =>
        /\ (rpc.message.method \in SharedMethods
                /\ ~(rpc.message.method = "tools/call" /\ rpc.message.params.name # "")) =>
               /\ Shape(rpc.response) = Shape(Dispatch("main", rpc.message, rpc.io))
               /\ Shape(rpc.response) = Shape(Dispatch("integration", rpc.message, rpc.io))
        /\ (rpc.message.method = "tools/call" /\ rpc.message.params.name # ""
                /\ ~InRegistry(mcpService, rpc.message.params.name)) =>
               rpc.response.result.isError

(***************************************************************************)
(* Claims about relayed requests                                           *)
(***************************************************************************)
\* C26: a request is answered 429 only when its own client has passed the
\* ceiling: by the limiter of the server it was sent to, when that client's
\* counter there is past the ceiling, and by the limiter of the downstream
\* service it was relayed to, when that client has had more than the ceiling
\* of requests relayed in the downstream window.
C26_CountedPerClient ==
    /\ resp.status = 429 => hits[resp.ip] > max
    /\ (relay.forwarded /\ relay.status = 429) =>
           relay.sent[relay.downstream][relay.ip] > max

\* C27: a request that is forwarded had its credential validated by the
\* gate and carries the configured key as its X-API-KEY header.
C27_ForwardedKeyIsValidated ==
    relay.forwarded => (relay.validated /\ relay.key = apiKeyEnv)

(***************************************************************************)
(* Claims about the project structure                                      *)
(***************************************************************************)
\* the entries of a directory that are not passed over
Listable(dir) == {e \in readdir(walk.on, dir) : ~Ignored(basename(e))}

\* no file stands before a directory
DirectoriesFirst(children) ==
    \A i, j \in 1..Len(children) :
        (children[i].type = "file" /\ children[j].type = "directory") => j < i

ChildPaths(node) == {Abs(node.children[i].path) : i \in 1..Len(node.children)}

\* the node stands for the entry at path, at depth k of a structure asked
\* for to maxDepth
RECURSIVE WellFormed(_, _, _, _)
WellFormed(node, path, k, maxDepth) ==
    /\ k <= maxDepth
    /\ node.type \in {"file", "directory"}
    /\ node.type = "file" <=> IsFile(walk.on, path)
    /\ node.name = basename(path)
    /\ node.type = "file" => (~node.listed /\ node.children = <<>>)
    /\ (node.type = "directory" /\ k = maxDepth) => (~node.listed /\ node.children = <<>>)
    /\ (node.type = "directory" /\ k < maxDepth) =>
           /\ node.listed
           /\ ChildPaths(node) \subseteq Listable(path) \ walk.faults.stat
           /\ Listable(path) \ (walk.faults.stat \cup walk.faults.readdir)
                  \subseteq ChildPaths(node)
           /\ Len(node.children) = Cardinality(ChildPaths(node))
           /\ DirectoriesFirst(node.children)
           /\ \A i \in 1..Len(node.children) :
                  WellFormed(node.children[i], Abs(node.children[i].path), k + 1, maxDepth)

\* C28, as stated: a structure that is returned, for whatever maxDepth, has
\* every node at depth at most maxDepth, directories at the cutoff without
\* children, directories above it with all their readable entries that are
\* not passed over, directories before files, and an unreadable entry does
\* not make the call fail.
C28_TreeAnyDepth ==
    /\ walk.outcome = "returned" => WellFormed(walk.tree, walk.root, 0, walk.depth)
    /\ walk.outcome = "raised" =>
           (walk.root \in walk.faults.stat \cup walk.faults.readdir)

\* C28, for a maxDepth that is not negative: the same
C28_TreeWithinDepth ==
    walk.depth >= 0 => C28_TreeAnyDepth

\* a structure to depth 2 with a directory whose entries cannot be read left
\* out, and the directory of the root before its file
C28_Witness ==
    /\ walk.outcome = "returned"
    /\ walk.depth = 2
    /\ walk.faults.readdir # {}
    /\ Len(walk.tree.children) = 2
    /\ walk.tree.children[1].type = "directory"
    /\ walk.tree.children[2].type = "file"
    /\ Len(walk.tree.children[1].children) = 1

(***************************************************************************)
(* Claims about the log store                                              *)
(***************************************************************************)
Smaller(a, b) == IF a < b THEN a ELSE b

\* C29: the store holds at most MAX_LOGS records, newest first, and they
\* are the most recent min(n, MAX_LOGS) of the n records added since the
\* last clear; getLogs returns the newest of them and changes nothing; and
\* a step that makes the store shorter is a clear, which leaves the counts
\* of requests as they are.
C29_NewestThousand ==
    /\ [](/\ Len(storage.logs) = Smaller(storage.added, MAX_LOGS)
          /\ \A i \in 1..Len(storage.logs) :
                 storage.logs[i].id = <<storage.clears, storage.added - i + 1>>
          /\ storage.got.asked =>
                 /\ Len(storage.got.logs) <= Len(storage.logs)
                 /\ \A i \in 1..Len(storage.got.logs) :
                        storage.got.logs[i] = storage.logs[i])
    /\ [][/\ Len(storage'.logs) < Len(storage.logs) =>
                 /\ storage'.clears = storage.clears + 1
                 /\ storage'.logs = <<>>
                 /\ storage'.stats = storage.stats
          /\ storage'.clears # storage.clears => storage'.stats = storage.stats
          /\ storage'.got.asked => storage'.logs = storage.logs]_vars

\* the store is full after a clear, its oldest record evicted
C29_Witness ==
    /\ storage.clears = 1
    /\ storage.added = MAX_LOGS + 1
    /\ Len(storage.logs) = MAX_LOGS
    /\ storage.logs[MAX_LOGS].id = <<1, 2>>
    /\ storage.stats.totalRequests = 1

\* C30: every request the server has answered has added one record and
\* has been counted once, as successful exactly when its status is from
\* 200 to 399.
C30_EveryCompletionLogged ==
    /\ storage.stats.totalRequests = storage.answered
    /\ storage.stats.totalRequests =
           storage.stats.successfulRequests + storage.stats.failedRequests
    /\ Len(storage.logs) = Smaller(storage.answered, MAX_LOGS)
    /\ storage.stats.successfulRequests =
           Cardinality({i \in 1..Len(storage.logs) : IsSuccess(storage.logs[i].status)})
    /\ (resp.status # 0 /\ storage.logs # <<>>) =>
           (storage.logs[1].status = resp.status /\ storage.logs[1].ip = resp.ip)

====
